---- MODULE Spec2Model ----
(***************************************************************************)
(* A model of gpsmon (src/gpsd/gpsmon/gpsmon.c, monitor_nmea0183.c): the   *)
(* monitor-object registry and switcher, the per-packet hook, the command  *)
(* processor, the event loop of main() and its shutdown paths.             *)
(*                                                                         *)
(* Strings are sequences of one-character strings, without the C           *)
(* terminator; reading index Len(s)+1 is reading the terminator.           *)
(***************************************************************************)
EXTENDS Integers, Sequences, FiniteSets, TLC

VARIABLES
    pc,           \* position of main(): setup, await, poll, keys, fgets, cmd,
                  \* rearm, quit, quit_log, quit_tty, abort, exited
    bailout,      \* main(): int bailout, the value setjmp(terminate) returned
    serial,       \* bool serial
    nocurses,     \* main(): option -a
    screen,       \* <<LINES, COLS>> of the display surface
    active,       \* monitor_objects index of *active, 0 for active == NULL
    last_type,    \* select_packet_monitor(): static int last_type
    lexer_type,   \* session.lexer.type
    device_type,  \* session.device_type
    outbuflen,    \* session.lexer.outbuflen
    calls,        \* hook calls and assignments made by the last step, in order
    complaint,    \* what the last step reported through (monitor_)complain
    update_count, \* number of (*active)->update() calls so far
    logfile,      \* "null" (NULL), "open", or "stale" (closed, pointer kept)
    double_fclose,\* TRUE once fclose() was given an already closed logfile
    sinks,        \* the number of log files fopen() returned that are not
                  \* closed yet
    matches,      \* main(): int matches
    nmea,         \* main(): bool nmea
    time_offset,  \* static struct timedelta_t time_offset: the sample in it
    pps_out,      \* session.pps_thread.pps_out: the sample in it
    ppsout_count, \* session.pps_thread.ppsout_count, up to MaxPulses
    newdata_time, \* session.newdata.time.tv_sec
    fix_in_real,  \* session.pps_thread.fix_in.real.tv_sec
    latch_calls,  \* history: the samples the last gpsmon_hook() call gave to
                  \* ntp_latch(), in order
    last_event,   \* history: <<class, status, sample>> of the last packet
                  \* given to gpsmon_hook()
    render,       \* a call of visibilize() or cond_hexdump(): its arguments
                  \* and, once it has returned, what it did
    lock,         \* TRUE while the reporting lock is held
    writes,       \* history: what the last step wrote to stdout and to the
                  \* log file, in order: the sink, and whether the
                  \* reporting lock was held
    tty,          \* the terminal's input mode
    cooked,       \* struct termios cooked
    rare,         \* struct termios rare
    cmdline,      \* static const char *cmdline: a line, or NoLine for NULL
    rfds,         \* <<device fd ready, fd 0 ready>> of the last wait
    fresh,        \* history: cmdline is a line fgets() returned in this turn
                  \* of the loop and do_command() has not been given yet
    fragments,    \* packets the current gpsd_multipoll() call has delivered
    nonempty,     \* those of them with lexer.outbuflen > 0
    last_poll,    \* history: what this turn's gpsd_multipoll() returned, or "none"
    ready_polls,  \* history: how often it returned DEVICE_READY, up to MaxPolls
    one_each,     \* history: each of those calls delivered one non-empty packet
    last_wait,    \* history: <<what this turn's gpsd_await_data() returned, the
                  \* device's descriptor is in efds>>, <<"none", FALSE>> otherwise
    readonly,     \* context.readonly
    fallback,     \* static const struct gps_type_t *fallback, "NULL" or a driver
    counter,      \* session.lexer.counter, up to MaxCounter
    cmd_calls,    \* calls the last command made to the device, the session
                  \* and the log file, in order
    arg,          \* do_command(): arg as the last command computed it
    pps_active,   \* the PPS thread is running
    gps_open,     \* the transport is open
    explanation,  \* main(): what the shutdown path wrote to stderr
    exit_status   \* status given to exit(), "running" before

vars == <<pc, bailout, serial, nocurses, screen, active, last_type, lexer_type,
          device_type, outbuflen, calls, complaint, update_count, logfile,
          double_fclose, lock, tty, cooked, rare, cmdline, rfds, fragments,
          nonempty, last_poll, ready_polls, one_each, last_wait, readonly,
          fallback, counter, cmd_calls, arg, pps_active, gps_open,
          explanation, exit_status, sinks, matches, nmea, time_offset,
          pps_out, ppsout_count, newdata_time, fix_in_real, latch_calls,
          last_event, render, writes, fresh>>

\* The variables a step of the monitor code can change, and the others.
config_vars == <<serial, nocurses, screen, matches, nmea>>
session_vars == <<lexer_type, device_type, outbuflen>>
monitor_vars == <<active, last_type, update_count>>
report_vars == <<calls, complaint, writes>>
log_vars == <<logfile, double_fclose, sinks>>
term_vars == <<tty, cooked, rare>>
poll_vars == <<rfds, fragments, nonempty, fresh>>
history_vars == <<last_poll, ready_polls, one_each, last_wait>>
exit_vars == <<explanation, exit_status>>
command_vars == <<readonly, fallback, counter, cmd_calls, arg>>
hook_vars == <<time_offset, pps_out, ppsout_count, newdata_time, fix_in_real,
               latch_calls, last_event>>

(***************************************************************************)
(* Bounds of the model.                                                    *)
(***************************************************************************)
MaxUpdates == 2
MaxPolls == 3
MaxFragments == 1
MaxCounter == 1
MaxSinks == 2
MaxPulses == 2

(***************************************************************************)
(* Program constants.                                                      *)
(***************************************************************************)
TERM_SELECT_FAILED == 1
TERM_DRIVER_SWITCH == 2
TERM_EMPTY_READ == 3
TERM_READ_ERROR == 4
TERM_SIGNAL == 5
TERM_QUIT == 6

WIDTH_L == 25
WIDTH_M == 27
WIDTH_R == 30
WIDTH == WIDTH_L + WIDTH_M + WIDTH_R - 2
HEIGHT_1 == 3
HEIGHT_2 == 3
HEIGHT_3 == 9
HEIGHT_4 == 6
HEIGHT == HEIGHT_1 + HEIGHT_2 + HEIGHT_3 + HEIGHT_4
JSON_MIN_X == 80

(***************************************************************************)
(* The device-type descriptors the sources name, with their type names.    *)
(***************************************************************************)
Drivers == {"driver_nmea0183", "driver_json_passthrough", "driver_ashtech",
            "driver_mtk3301", "driver_ubx"}

type_name(d) ==
    CASE d = "driver_nmea0183" -> <<"N","M","E","A","0","1","8","3">>
      [] d = "driver_json_passthrough" ->
            <<"J","S","O","N"," ","s","l","a","v","e"," ","d","r","i","v","e","r">>
      [] d = "driver_ashtech" -> <<"A","s","h","t","e","c","h">>
      [] d = "driver_mtk3301" -> <<"M","T","K","-","3","3","0","1">>
      [] d = "driver_ubx" -> <<"u","-","b","l","o","x">>

\* device_type->flags & DRIVER_STICKY
DRIVER_STICKY(d) == d \in {"driver_ashtech", "driver_mtk3301"}

PacketTypes == {"BAD_PACKET", "COMMENT_PACKET", "NMEA_PACKET", "JSON_PACKET"}

(***************************************************************************)
(* The monitor objects and the registry.                                   *)
(***************************************************************************)
nmea_mmt ==
    [initialize |-> TRUE, update |-> TRUE, command |-> FALSE, wrap |-> TRUE,
     min_y |-> HEIGHT, min_x |-> WIDTH, driver |-> "driver_nmea0183"]

json_mmt ==
    [initialize |-> FALSE, update |-> FALSE, command |-> FALSE, wrap |-> FALSE,
     min_y |-> 0, min_x |-> JSON_MIN_X, driver |-> "driver_json_passthrough"]

monitor_objects == <<nmea_mmt, json_mmt>>

\* The display sizes tried: curses never initialised, one row short of the
\* NMEA window, one column short, exactly fitting, and roomy.
Screens == {<<0, 0>>, <<HEIGHT, WIDTH>>, <<HEIGHT + 1, WIDTH - 1>>,
            <<HEIGHT + 1, WIDTH>>, <<HEIGHT + 4, WIDTH + 10>>}

ScreenLines == screen[1]
ScreenCols == screen[2]

\* static bool curses_active = false: nothing in gpsmon.c assigns it.
curses_active == FALSE

Event(op, obj) == [op |-> op, obj |-> obj]

Min(S) == CHOOSE x \in S : \A y \in S : x <= y

(***************************************************************************)
(* C strings.                                                              *)
(***************************************************************************)
isspace(c) == c \in {" ", "\n", "\t", "\r"}

\* strstr(hay, needle) != NULL
strstr(hay, needle) ==
    \E i \in 0..(Len(hay) - Len(needle)) :
        \A k \in 1..Len(needle) : hay[i + k] = needle[k]

\* strcmp(a, b) == 0
streq(a, b) == a = b

\* What lies in inbuf[] behind a line's terminator: bytes of earlier, longer
\* lines or of the uninitialised array.
Residue == {<< >>, <<"M","E","A","0","1","8","3">>, <<"z">>}

(***************************************************************************)
(* switch_type(): the outcome of a switch to the monitor object of devtype *)
(* when act is the active one, on a screen of lines x cols.                *)
(***************************************************************************)
find_monitor(devtype) ==
    LET hits == {i \in DOMAIN monitor_objects :
                    streq(type_name(monitor_objects[i].driver), type_name(devtype))}
    IN  IF hits = {} THEN 0 ELSE Min(hits)

too_small(obj, lines, cols) ==
    lines < monitor_objects[obj].min_y + 1 \/ cols < monitor_objects[obj].min_x

\* A switch that never calls the wrap hook, to compare with.
leave_calls_none(act) == << >>

leave_calls(act) ==
    IF act # 0 /\ monitor_objects[act].wrap THEN <<Event("wrap", act)>> ELSE << >>

\* switch_type() without its size test, to compare with.
switch_type_any_size(devtype, act, lines, cols) ==
    LET newobject == find_monitor(devtype) IN
    IF newobject # 0
    THEN [ret |-> TRUE, active |-> newobject,
          calls |-> leave_calls(act) \o <<Event("activate", newobject)>>,
          complaint |-> "none"]
    ELSE [ret |-> FALSE, active |-> act, calls |-> << >>,
          complaint |-> "no_monitor"]

\* switch_type() returning false when the screen is too small, to compare with.
switch_type_refusal_fatal(devtype, act, lines, cols) ==
    LET newobject == find_monitor(devtype) IN
    IF newobject # 0
    THEN IF too_small(newobject, lines, cols)
         THEN [ret |-> FALSE, active |-> act, calls |-> << >>,
               complaint |-> "requires_screen"]
         ELSE [ret |-> TRUE, active |-> newobject,
               calls |-> leave_calls(act) \o <<Event("activate", newobject)>>,
               complaint |-> "none"]
    ELSE [ret |-> FALSE, active |-> act, calls |-> << >>,
          complaint |-> "no_monitor"]

switch_type(devtype, act, lines, cols) ==
    LET newobject == find_monitor(devtype) IN
    IF newobject # 0
    THEN IF too_small(newobject, lines, cols)
         THEN [ret |-> TRUE, active |-> act, calls |-> << >>,
               complaint |-> "requires_screen"]
         ELSE [ret |-> TRUE, active |-> newobject,
               calls |-> leave_calls(act) \o <<Event("activate", newobject)>>,
               complaint |-> "none"]
    ELSE [ret |-> FALSE, active |-> act, calls |-> << >>,
          complaint |-> "no_monitor"]

(***************************************************************************)
(* longjmp(terminate, code): control resumes at setjmp(terminate), which   *)
(* returns code, and falls to the quit label.  main()'s rfds and the       *)
(* locals of gpsd_multipoll() are dead from here on.                       *)
(***************************************************************************)
longjmp_terminate(code) ==
    /\ bailout' = code
    /\ pc' = "quit"
    /\ rfds' = <<FALSE, FALSE>>
    /\ fresh' = FALSE
    /\ fragments' = 0
    /\ nonempty' = 0

\* The call returns to its caller.
returns == UNCHANGED <<pc, bailout, poll_vars>>

(***************************************************************************)
(* select_packet_monitor(device), device->lexer.type = t,                  *)
(* device->device_type = d, device->lexer.outbuflen = n.                   *)
(***************************************************************************)
\* A lookup that always takes the device's own type, to compare with.
lookup_target_device(t, d) == d

lookup_target(t, d) ==
    IF t = "NMEA_PACKET" /\ DRIVER_STICKY(d) THEN "driver_nmea0183" ELSE d

update_calls(act, n) ==
    IF act # 0 /\ 0 < n /\ monitor_objects[act].update
    THEN <<Event("update", act)>> ELSE << >>

\* select_packet_monitor() ignoring what switch_type() returns, to compare
\* with.
select_packet_monitor_lenient(t, d, n) ==
    IF t # last_type
    THEN LET r == switch_type(lookup_target(t, d), active, ScreenLines, ScreenCols) IN
         /\ active' = r.active
         /\ last_type' = t
         /\ calls' = r.calls \o update_calls(r.active, n)
         /\ complaint' = r.complaint
         /\ writes' = << >>
         /\ update_count' = update_count + Len(update_calls(r.active, n))
         /\ returns
    ELSE /\ calls' = update_calls(active, n)
         /\ complaint' = "none"
         /\ writes' = << >>
         /\ update_count' = update_count + Len(update_calls(active, n))
         /\ UNCHANGED <<active, last_type>>
         /\ returns

select_packet_monitor(t, d, n) ==
    IF t # last_type
    THEN LET r == switch_type(lookup_target(t, d), active, ScreenLines, ScreenCols) IN
         IF ~r.ret
         THEN /\ longjmp_terminate(TERM_DRIVER_SWITCH)
              /\ calls' = r.calls
              /\ complaint' = r.complaint
              /\ writes' = << >>
              /\ UNCHANGED <<active, last_type, update_count>>
         ELSE /\ active' = r.active
              /\ last_type' = t
              /\ calls' = r.calls \o update_calls(r.active, n)
              /\ complaint' = r.complaint
              /\ writes' = << >>
              /\ update_count' = update_count + Len(update_calls(r.active, n))
              /\ returns
    ELSE /\ calls' = update_calls(active, n)
         /\ complaint' = "none"
         /\ writes' = << >>
         /\ update_count' = update_count + Len(update_calls(active, n))
         /\ UNCHANGED <<active, last_type>>
         /\ returns

\* render before visibilize() or cond_hexdump() is called
NoRender == [pass |-> 0]

(***************************************************************************)
(* The operator lines tried in whole runs.  fgets() returned them, so each *)
(* holds the byte read() took and at least one more.                       *)
(***************************************************************************)
NoLine == << >>

RunLines == {
    <<"q", "\n">>,
    <<"t", "N", "M", "E", "A">>,
    <<"t", " ", "J", "S", "O", "N">>,
    <<"t", "A", "s", "h">>,
    <<"t", "1">>,
    <<"t", "z", "z">>,
    <<"t", "\n">>,
    <<"z", "\n">> }

\* The lines do_command() is tried on: those, and lines for the verbs c, i,
\* l, n, s, x and X, with and without the newline fgets() keeps.
CmdLines == RunLines \cup {
    <<"s", " ", "4", "8", "0", "0", ":", "8", "N", "1">>,
    <<"s", " ", "4", "8", "0", "0", ":", "9", "N", "1">>,
    <<"s", "4", "8", "0", "0", ":", "8", "N", "1">>,
    <<"s", "4", "8", "0", "0", ":", "8", "N", "1", "\n">>,
    <<"s", "4", "8", "0", "0", ":", "9", "N", "1">>,
    <<"s", "4", "8", "0", "0", ":", "8", "X", "1">>,
    <<"s", "4", "8", "0", "0", ":", "8", "N", "3">>,
    <<"s", "4", "8", "0", "0", ":", "8">>,
    <<"s", "4", "8", "0", "0", ":", "8", "N">>,
    <<"s", "4", "8", "0", "0", ":", "8", "\n">>,
    <<"s", "4", "8", "0", "0", ":">>,
    <<"s", " ", "4", "8", "0", "0">>,
    <<"s", "4", "8", "0", "0", "\n">>,
    <<"x", "z", "z">>,
    <<"x", " ", "z", "z">>,
    <<"x", "4", "z", "\n">>,
    <<"x", "4", "1", "4", "2">>,
    <<"x", "4", "1", "4", "2", "\n">>,
    <<"X", "z", "z">>,
    <<"X", "4", "1", "4", "2">>,
    <<"c", "1", "\n">>,
    <<"i", "\n">>,
    <<"i", "0", "\n">>,
    <<"i", "1", "\n">>,
    <<"i", " ", "0", "\n">>,
    <<"i", " ", "1", "\n">>,
    <<"l", " ", "l", "o", "g", "\n">>,
    <<"l", "0", "\n">>,
    <<"n", "\n">>,
    <<"n", "0", "\n">>,
    <<"n", "1", "\n">> }

\* line[i], i counted from 0; "NUL" is the terminator.
CharAt(line, i) == IF i < Len(line) THEN line[i + 1] ELSE "NUL"

\* do_command(): the for loop that skips whitespace, from offset a.  Its body
\* and its increment each advance arg, so it moves two bytes a turn; behind
\* the terminator it reads inbuf[]'s residue, and the model stops there.
RECURSIVE skip_loop(_, _)
skip_loop(line, a) ==
    IF a < Len(line) /\ isspace(CharAt(line, a))
    THEN skip_loop(line, a + 2)
    ELSE a

\* do_command(): the offset of arg in line.
arg_offset(line) ==
    IF isspace(CharAt(line, 1))
    THEN skip_loop(line, 2) + 1
    ELSE 1

\* The strings arg can be: the rest of the line, or residue when arg points
\* behind the terminator.
arg_strings(line) ==
    IF arg_offset(line) <= Len(line)
    THEN {SubSeq(line, arg_offset(line) + 1, Len(line))}
    ELSE Residue

(***************************************************************************)
(* C library functions used by do_command().                               *)
(***************************************************************************)
Digits == <<"0", "1", "2", "3", "4", "5", "6", "7", "8", "9">>

isdigit(c) == \E i \in DOMAIN Digits : Digits[i] = c

DigitValue(c) == (CHOOSE i \in DOMAIN Digits : Digits[i] = c) - 1

RECURSIVE atoi_digits(_, _, _)
atoi_digits(s, i, acc) ==
    IF i <= Len(s) /\ isdigit(s[i])
    THEN atoi_digits(s, i + 1, acc * 10 + DigitValue(s[i]))
    ELSE acc

RECURSIVE skip_space(_, _)
skip_space(s, i) ==
    IF i <= Len(s) /\ isspace(s[i]) THEN skip_space(s, i + 1) ELSE i

\* atoi(): leading whitespace, then digits; the lines tried carry no sign.
atoi(s) == atoi_digits(s, skip_space(s, 1), 0)

\* strcspn(line, "01") == strlen(line)
no_01(line) == \A i \in DOMAIN line : line[i] \notin {"0", "1"}

\* strchr(s, c) for c # '\0': the index of the first c in s, 0 for NULL.
strchr(s, c) ==
    IF \E i \in DOMAIN s : s[i] = c
    THEN Min({i \in DOMAIN s : s[i] = c})
    ELSE 0

\* strchr(set, c) != NULL for a string literal set: the terminator of the
\* literal is part of the string searched, so c = '\0' is found.
in_literal(set, c) == c \in set \cup {"NUL"}

\* The byte at index i of the C string s (from 1): the terminator right
\* behind it, and behind that whatever the buffer holds, junk.
ByteAt(s, i, junk) ==
    IF i <= Len(s) THEN s[i]
    ELSE IF i = Len(s) + 1 THEN "NUL"
    ELSE junk[i - Len(s) - 1]

\* Pairs of bytes that can lie behind a line's terminator in inbuf[].
Junks == {<<"NUL", "NUL">>, <<"N", "1">>, <<"z", "z">>}

\* (unsigned int)c - '0' as passed on in (int)stopbits; -48 for the
\* terminator.
StopbitsValue(c) == IF isdigit(c) THEN DigitValue(c) ELSE 0 - 48

HexDigits == {"0", "1", "2", "3", "4", "5", "6", "7", "8", "9",
              "a", "b", "c", "d", "e", "f", "A", "B", "C", "D", "E", "F"}

\* gpsd_hexpack(src, dst, strlen(src)): the number of bytes packed, -2 if
\* there is not one whole byte, -1 on a character that is no hex digit.
gpsd_hexpack(src) ==
    LET l == Len(src) \div 2 IN
    IF l < 1 THEN 0 - 2
    ELSE IF \E i \in 1..(2 * l) : src[i] \notin HexDigits THEN 0 - 1
    ELSE l

\* TEXTUAL_PACKET_TYPE(session.lexer.type)
TEXTUAL_PACKET_TYPE(t) ==
    IF t \in {"NMEA_PACKET", "JSON_PACKET", "COMMENT_PACKET"} THEN 1 ELSE 0

(***************************************************************************)
(* The methods of the drivers: gps_type_t.rate_switcher, .mode_switcher,   *)
(* .speed_switcher, .control_send, non-NULL or NULL.                       *)
(***************************************************************************)
rate_switcher(d) == d \in {"driver_mtk3301", "driver_ubx"}
mode_switcher(d) == d \in {"driver_ubx"}
speed_switcher(d) == d \in {"driver_ubx"}
control_send(d) ==
    d \in {"driver_nmea0183", "driver_ashtech", "driver_mtk3301", "driver_ubx"}

\* session.gpsdata.dev.parity and .stopbits, the framing in use
DevParity == "N"
DevStopbits == 1

\* A call made by a command: op, the driver whose method it is ("NULL" for
\* none), its arguments, and context.readonly as it is during the call.
Call(op, driver, speed, parity, stopbits, ro) ==
    [op |-> op, driver |-> driver, speed |-> speed, parity |-> parity,
     stopbits |-> stopbits, readonly |-> ro]

(***************************************************************************)
(* do_command(line), with arg as computed from line.  The result is its    *)
(* return value and what it did to the state.  ok is what the one library  *)
(* or driver call with a result returned (fopen, a switcher, a write);     *)
(* junk is what lies behind the terminator of arg.                         *)
(***************************************************************************)
\* announce_log(): one line to the log file if there is one, written by the
\* caller's thread as it is
announce_log ==
    IF logfile # "null" THEN <<[sink |-> "logfile", locked |-> lock]>>
    ELSE << >>

\* A command that did nothing, and one that only complained.
Done ==
    [ret |-> TRUE, active |-> active, device_type |-> device_type,
     calls |-> << >>, complaint |-> "none", readonly |-> readonly,
     fallback |-> fallback, counter |-> counter, logfile |-> logfile,
     sinks |-> sinks, cmd_calls |-> << >>, arg |-> arg, writes |-> << >>]

Complain(msg) == [Done EXCEPT !.complaint = msg]

\* The descriptor whose method a command uses: fallback if it is set and
\* has the method, the session's device type if not.
has_method(d, method) ==
    CASE method = "rate_switcher" -> rate_switcher(d)
      [] method = "mode_switcher" -> mode_switcher(d)
      [] method = "speed_switcher" -> speed_switcher(d)

\* Switcher() that prefers the session's device type, to compare with.
Switcher_live_first(method) ==
    IF device_type # "NULL" /\ has_method(device_type, method)
    THEN device_type
    ELSE IF fallback # "NULL" THEN fallback ELSE device_type

Switcher(method) ==
    IF fallback # "NULL" /\ has_method(fallback, method) THEN fallback
    ELSE device_type

do_command_c(a, ok) ==
    IF device_type = "NULL" THEN Complain("no_device")
    ELSE IF ~serial THEN Complain("low_level_only")
    ELSE IF rate_switcher(Switcher("rate_switcher"))
    THEN [Done EXCEPT
            !.cmd_calls = <<Call("rate_switcher", Switcher("rate_switcher"),
                                 atoi(a), "", 0, FALSE)>>,
            !.readonly = TRUE,
            !.writes = IF ok THEN announce_log ELSE << >>,
            !.complaint = IF ok THEN "none" ELSE "rate_not_supported"]
    ELSE Complain("no_rate_switcher")

\* do_command_i() with the counter reset when probing ends up disabled.
do_command_i_reset_on_disable(line) ==
    IF device_type = "NULL" THEN Complain("no_gps_type")
    ELSE IF ~serial THEN Complain("low_level_only")
    ELSE LET ro == IF no_01(line) THEN ~readonly ELSE atoi(Tail(line)) = 0
         IN  [Done EXCEPT !.readonly = ro,
                          !.writes = announce_log,
                          !.counter = IF ro THEN 0 ELSE counter]

do_command_i(line) ==
    IF device_type = "NULL" THEN Complain("no_gps_type")
    ELSE IF ~serial THEN Complain("low_level_only")
    ELSE LET ro == IF no_01(line) THEN ~readonly ELSE atoi(Tail(line)) = 0
         IN  [Done EXCEPT !.readonly = ro,
                          !.writes = announce_log,
                          !.counter = IF ~ro THEN 0 ELSE counter]

\* do_command_n() that stores the session's device type as fallback, to
\* compare with.
do_command_n_stores_device(line) ==
    LET v == IF no_01(line) THEN TEXTUAL_PACKET_TYPE(lexer_type)
             ELSE atoi(Tail(line))
    IN  IF device_type = "NULL" THEN Complain("no_device")
        ELSE IF ~serial THEN Complain("low_level_only")
        ELSE IF mode_switcher(Switcher("mode_switcher"))
        THEN [Done EXCEPT
                !.cmd_calls = <<Call("mode_switcher", Switcher("mode_switcher"),
                                     v, "", 0, FALSE)>>,
                !.readonly = TRUE,
                !.writes = announce_log,
                !.fallback = IF v = 0 THEN device_type ELSE fallback]
        ELSE Complain("no_mode_switcher")

do_command_n(line) ==
    LET v == IF no_01(line) THEN TEXTUAL_PACKET_TYPE(lexer_type)
             ELSE atoi(Tail(line))
    IN  IF device_type = "NULL" THEN Complain("no_device")
        ELSE IF ~serial THEN Complain("low_level_only")
        ELSE IF mode_switcher(Switcher("mode_switcher"))
        THEN [Done EXCEPT
                !.cmd_calls = <<Call("mode_switcher", Switcher("mode_switcher"),
                                     v, "", 0, FALSE)>>,
                !.readonly = TRUE,
                !.writes = announce_log,
                !.fallback = IF v = 0 THEN Switcher("mode_switcher")
                             ELSE fallback]
        ELSE Complain("no_mode_switcher")

\* case 'l': the break belongs to the if, so a failed fopen() falls through
\* into case 'n'.
do_command_l(line, ok) ==
    LET files == (IF logfile # "null"
                  THEN <<Call("fclose", "NULL", 0, "", 0, readonly)>>
                  ELSE << >>)
                 \o <<Call("fopen", "NULL", 0, "", 0, readonly)>>
        closed == IF logfile = "open" THEN sinks - 1 ELSE sinks
    IN  IF ok
        THEN [Done EXCEPT !.logfile = "open", !.sinks = closed + 1,
                          !.cmd_calls = files]
        ELSE [do_command_n(line) EXCEPT
                !.logfile = "null",
                !.sinks = closed,
                !.writes = << >>,
                !.cmd_calls = files \o do_command_n(line).cmd_calls]

do_command_s(a, ok, junk) ==
    IF device_type = "NULL" THEN Complain("no_device")
    ELSE IF ~serial THEN Complain("low_level_only")
    ELSE
    LET modespec == strchr(a, ":")
        wordlen == ByteAt(a, modespec + 1, junk)
        parity == ByteAt(a, modespec + 2, junk)
        stopbits == ByteAt(a, modespec + 3, junk)
        setting == Call("speed_switcher", Switcher("speed_switcher"), atoi(a),
                        IF modespec # 0 THEN parity ELSE DevParity,
                        IF modespec # 0 THEN StopbitsValue(stopbits)
                        ELSE DevStopbits,
                        FALSE)
    IN  IF modespec # 0 /\ ~in_literal({"7", "8"}, wordlen)
        THEN Complain("bad_word_length")
        ELSE IF modespec # 0 /\ ~in_literal({"N", "O", "E"}, parity)
        THEN Complain("bad_parity")
        ELSE IF modespec # 0 /\ ~in_literal({"1", "2"}, stopbits)
        THEN Complain("bad_stopbits")
        ELSE IF speed_switcher(Switcher("speed_switcher"))
        THEN [Done EXCEPT
                !.cmd_calls = IF ok
                              THEN <<setting,
                                     [setting EXCEPT !.op = "gpsd_set_speed"]>>
                              ELSE <<setting>>,
                !.readonly = TRUE,
                !.writes = IF ok THEN announce_log ELSE << >>,
                !.complaint = IF ok THEN "none" ELSE "speed_not_supported"]
        ELSE Complain("no_speed_switcher")

force_matches(a) == {d \in Drivers : strstr(type_name(d), a)}

do_command_t(a) ==
    IF ~serial THEN Complain("low_level_only")
    ELSE IF Len(a) > 0
    THEN IF Cardinality(force_matches(a)) = 0
         THEN Complain("no_driver_type")
         ELSE IF Cardinality(force_matches(a)) = 1
         THEN LET forcetype == CHOOSE d \in force_matches(a) : TRUE
                  r == switch_type(forcetype, active, ScreenLines, ScreenCols)
              IN  IF r.ret
                  THEN [Done EXCEPT
                          !.active = r.active,
                          !.device_type = forcetype,
                          !.calls = r.calls \o
                                    <<Event("gpsd_switch_driver", r.active)>>,
                          !.complaint = r.complaint]
                  ELSE [Done EXCEPT !.active = r.active, !.calls = r.calls,
                                    !.complaint = r.complaint]
         ELSE Complain("multiple_driver_types")
    ELSE Done

\* monitor_control_send(buf, len), called with serial set
monitor_control_send(len, ok) ==
    [Done EXCEPT
       !.cmd_calls = <<Call("control_send", device_type, len, "", 0, FALSE)>>,
       !.readonly = TRUE,
       !.complaint = IF ok THEN "none" ELSE "control_send_failed"]

\* do_command_x() with the two tests of the decoded string and of the
\* control_send method in the other order.
do_command_x_method_first(a, ok) ==
    IF device_type = "NULL" THEN Complain("no_device")
    ELSE IF ~serial THEN Complain("low_level_only")
    ELSE IF ~control_send(device_type) THEN Complain("no_control_send")
    ELSE IF gpsd_hexpack(a) < 0 THEN Complain("invalid_hex")
    ELSE monitor_control_send(gpsd_hexpack(a), ok)

do_command_x(a, ok) ==
    IF device_type = "NULL" THEN Complain("no_device")
    ELSE IF ~serial THEN Complain("low_level_only")
    ELSE IF gpsd_hexpack(a) < 0 THEN Complain("invalid_hex")
    ELSE IF ~control_send(device_type) THEN Complain("no_control_send")
    ELSE monitor_control_send(gpsd_hexpack(a), ok)

\* do_command_X() without the test for a low-level session, to compare with.
do_command_X_any_session(a, ok) ==
    IF gpsd_hexpack(a) < 0 THEN Complain("invalid_hex")
    ELSE [Done EXCEPT
            !.cmd_calls = <<Call("gpsd_write", device_type, gpsd_hexpack(a),
                                 "", 0, readonly)>>,
            !.complaint = IF ok THEN "none" ELSE "raw_send_failed"]

\* monitor_raw_send(buf, len) is gpsd_write(&session, buf, len)
do_command_X(a, ok) ==
    IF ~serial THEN Complain("low_level_only")
    ELSE IF gpsd_hexpack(a) < 0 THEN Complain("invalid_hex")
    ELSE [Done EXCEPT
            !.cmd_calls = <<Call("gpsd_write", device_type, gpsd_hexpack(a),
                                 "", 0, readonly)>>,
            !.complaint = IF ok THEN "none" ELSE "raw_send_failed"]

do_command_verb(line, a, ok, junk) ==
    CASE line[1] = "c" -> do_command_c(a, ok)
      [] line[1] = "i" -> do_command_i(line)
      [] line[1] = "l" -> do_command_l(line, ok)
      [] line[1] = "n" -> do_command_n(line)
      [] line[1] = "q" -> [Done EXCEPT !.ret = FALSE]
      [] line[1] = "s" -> do_command_s(a, ok, junk)
      [] line[1] = "t" -> do_command_t(a)
      [] line[1] = "x" -> do_command_x(a, ok)
      [] line[1] = "X" -> do_command_X(a, ok)
      [] OTHER -> Complain("unknown_command")

do_command(line, a, ok, junk) ==
    [do_command_verb(line, a, ok, junk) EXCEPT !.arg = a]


(***************************************************************************)
(* The packets gpsd_poll() hands to the hook: lexer.type, device_type,     *)
(* lexer.outbuflen.                                                        *)
(***************************************************************************)
Packets == {
    <<"NMEA_PACKET", "driver_nmea0183", 1>>,
    <<"NMEA_PACKET", "driver_ashtech", 1>>,
    <<"JSON_PACKET", "driver_json_passthrough", 1>>,
    <<"COMMENT_PACKET", "driver_nmea0183", 0>> }

\* The display sizes tried in whole runs: curses never initialised, one row
\* short of the NMEA window, and fitting it.
RunScreens == {<<0, 0>>, <<HEIGHT, WIDTH>>, <<HEIGHT + 1, WIDTH>>}

Init ==
    /\ pc = "setup"
    /\ bailout = 0
    /\ serial \in BOOLEAN
    /\ nocurses \in BOOLEAN
    /\ screen \in RunScreens
    /\ active = 0
    /\ last_type = "BAD_PACKET"
    /\ lexer_type = "BAD_PACKET"
    /\ device_type = "NULL"
    /\ outbuflen = 0
    /\ calls = << >>
    /\ complaint = "none"
    /\ writes = << >>
    /\ update_count = 0
    /\ logfile \in {"null", "open"}
    /\ sinks = IF logfile = "open" THEN 1 ELSE 0
    /\ matches = 0
    /\ nmea = FALSE
    /\ time_offset = 0
    /\ pps_out = 0
    /\ ppsout_count = 0
    /\ newdata_time = 0
    /\ fix_in_real = 0
    /\ latch_calls = << >>
    /\ last_event = <<"none", 0, 0>>
    /\ render = NoRender
    /\ double_fclose = FALSE
    /\ lock = FALSE
    /\ tty = "prior"
    /\ cooked = "unset"
    /\ rare = "unset"
    /\ cmdline = NoLine
    /\ rfds = <<FALSE, FALSE>>
    /\ fresh = FALSE
    /\ fragments = 0
    /\ nonempty = 0
    /\ last_poll = "none"
    /\ ready_polls = 0
    /\ one_each = TRUE
    /\ last_wait = <<"none", FALSE>>
    /\ readonly = TRUE
    /\ fallback = "NULL"
    /\ counter = 0
    /\ cmd_calls = << >>
    /\ arg = NoLine
    /\ pps_active = serial
    /\ gps_open = TRUE
    /\ explanation = "none"
    /\ exit_status = "running"

(***************************************************************************)
(* main(), lines 1061-1077: the signal handlers are installed; then the    *)
(* terminal is saved and put in rare mode (-a), or curses_init() runs.     *)
(***************************************************************************)
curses_init_results == BOOLEAN

Setup ==
    /\ pc = "setup"
    /\ IF nocurses
       THEN /\ writes' = <<[sink |-> "stdout", locked |-> lock]>>
            /\ cooked' = tty
            /\ rare' = "rare"
            /\ tty' = "rare"
            /\ pc' = "await"
       ELSE /\ \E ok \in curses_init_results :
                 pc' = IF ok THEN "await" ELSE "quit"
            /\ writes' = << >>
            /\ UNCHANGED term_vars
    /\ UNCHANGED <<bailout, config_vars, command_vars, session_vars,
                   monitor_vars, calls, complaint, log_vars, lock, cmdline,
                   poll_vars, history_vars, pps_active, gps_open, exit_vars,
                   hook_vars, render>>

(***************************************************************************)
(* main(), lines 1080-1096: gpsd_await_data().                             *)
(***************************************************************************)
AwaitInput ==
    /\ pc = "await"
    /\ \E dev \in BOOLEAN, key \in BOOLEAN : rfds' = <<dev, key>>
    /\ fresh' = FALSE
    /\ fragments' = 0
    /\ nonempty' = 0
    /\ last_poll' = "none"
    /\ last_wait' = IF rfds' = <<FALSE, FALSE>>
                    THEN <<"AWAIT_TIMEOUT", FALSE>>
                    ELSE <<"AWAIT_GOT_INPUT", FALSE>>
    /\ pc' = "poll"
    /\ writes' = << >>
    /\ UNCHANGED <<bailout, config_vars, command_vars, session_vars,
                   monitor_vars, calls, complaint, log_vars, lock, term_vars,
                   cmdline, ready_polls, one_each, pps_active, gps_open,
                   exit_vars,
                   hook_vars, render>>

\* AWAIT_NOT_READY with the device's descriptor in efds, or AWAIT_FAILED.
await_failures == {<<"AWAIT_NOT_READY", TRUE>>, <<"AWAIT_FAILED", FALSE>>,
                   <<"AWAIT_FAILED", TRUE>>}

AwaitFailed ==
    /\ pc = "await"
    /\ last_wait' \in await_failures
    /\ longjmp_terminate(TERM_SELECT_FAILED)
    /\ writes' = << >>
    /\ UNCHANGED <<config_vars, command_vars, session_vars, monitor_vars,
                   calls, complaint, log_vars, lock, term_vars, cmdline,
                   last_poll, ready_polls, one_each, pps_active, gps_open,
                   exit_vars,
                   hook_vars, render>>

\* A loop for which every AWAIT_NOT_READY is fatal, to compare with.
AwaitNotReady_fatal ==
    /\ pc = "await"
    /\ last_wait' = <<"AWAIT_NOT_READY", FALSE>>
    /\ longjmp_terminate(TERM_SELECT_FAILED)
    /\ writes' = << >>
    /\ UNCHANGED <<config_vars, command_vars, session_vars, monitor_vars,
                   calls, complaint, log_vars, lock, term_vars, cmdline,
                   last_poll, ready_polls, one_each, pps_active, gps_open,
                   exit_vars,
                   hook_vars, render>>

\* AWAIT_NOT_READY without the device's descriptor in efds: continue, which
\* starts the loop body again at gpsd_await_data().
AwaitNotReady ==
    /\ pc = "await"
    /\ last_wait' = <<"AWAIT_NOT_READY", FALSE>>
    /\ writes' = << >>
    /\ UNCHANGED <<pc, bailout, config_vars, command_vars, session_vars,
                   monitor_vars, calls, complaint, log_vars, lock, term_vars,
                   cmdline, poll_vars, last_poll, ready_polls, one_each,
                   pps_active, gps_open, exit_vars,
                   hook_vars, render>>

(***************************************************************************)
(* What a packet is to gpsmon_hook() beside <<t, d, n>>: the class its     *)
(* text starts with, the status json_toff_read() or json_pps_read() gives  *)
(* it, and the sample it carries.                                          *)
(***************************************************************************)
Samples == {1, 2}

\* json_toff_read(), json_pps_read(): 0, or an error code
json_statuses == {0, 3}

OtherEvent == <<"other", 0, 0>>

HookEvents ==
    {OtherEvent} \cup
    {<<c, st, smp>> : c \in {"TOFF", "PPS"}, st \in json_statuses,
                      smp \in Samples}

\* What ntp_latch() leaves in *td when it writes to it.
LatchedSample == 3

(***************************************************************************)
(* gpsmon_hook(device, changed) on the packet <<t, d, n>> of event ev,     *)
(* with device->newdata.time.tv_sec = time; written is the count fwrite()  *)
(* returns, latched tells whether ntp_latch() records the fix.  A failed   *)
(* assert() raises SIGABRT, and onsig() jumps to assertbuf with the        *)
(* reporting lock held.                                                    *)
(***************************************************************************)
\* A hook that goes on to the report and the fix time from every packet, to
\* compare with.
returns_early_never(ev) == FALSE

\* The hook returns before the report: a TOFF packet, an ill-formed PPS.
returns_early(ev) ==
    /\ ~serial
    /\ \/ ev[1] = "TOFF"
       \/ ev[1] = "PPS" /\ ev[2] # 0

\* The packet is a PPS report that is stored and counted; and one that
\* takes every PPS report for well-formed, to compare with.
stores_pulse_unchecked(ev) == ~serial /\ ev[1] = "PPS"

stores_pulse(ev) == ~serial /\ ev[1] = "PPS" /\ ev[2] = 0

\* The test on the fix time at the end of the hook; and one that also takes
\* the time of the last recorded fix for new, to compare with.
new_fix_time_or_same(time) == ~(0 >= time) /\ ~(time < fix_in_real)

new_fix_time(time) == ~(0 >= time) /\ ~(time <= fix_in_real)

gpsmon_hook(t, d, n, written, ev, time, latched) ==
    LET toff == ~serial /\ ev[1] = "TOFF"
        pps == ~serial /\ ev[1] = "PPS"
        assert_fails == /\ ~returns_early(ev)
                        /\ logfile # "null" /\ n > 0 /\ ~(written >= 1)
        latch == /\ ~returns_early(ev)
                 /\ ~assert_fails
                 /\ new_fix_time(time)
    IN  /\ lexer_type' = t
        /\ device_type' = d
        /\ outbuflen' = n
        /\ calls' = << >>
        /\ complaint' = IF toff /\ ev[2] # 0 THEN "ill_formed_toff"
                        ELSE IF pps /\ ev[2] # 0 THEN "ill_formed_pps"
                        ELSE "none"
        /\ writes' = IF returns_early(ev) THEN << >>
                     ELSE (IF ~curses_active
                           THEN <<[sink |-> "stdout", locked |-> TRUE]>>
                           ELSE << >>)
                          \o (IF logfile # "null" /\ n > 0
                              THEN <<[sink |-> "logfile", locked |-> TRUE]>>
                              ELSE << >>)
        /\ time_offset' = IF toff /\ ev[2] = 0 THEN ev[3]
                          ELSE IF latch /\ latched THEN LatchedSample
                          ELSE time_offset
        /\ pps_out' = IF stores_pulse(ev) THEN ev[3] ELSE pps_out
        /\ ppsout_count' = IF stores_pulse(ev) THEN ppsout_count + 1
                           ELSE ppsout_count
        /\ newdata_time' = time
        /\ fix_in_real' = IF latch /\ latched THEN time ELSE fix_in_real
        /\ latch_calls' = IF latch THEN <<time_offset>> ELSE << >>
        /\ last_event' = ev
        /\ IF assert_fails
           THEN /\ lock' = TRUE
                /\ pc' = "abort"
           ELSE /\ lock' = FALSE
                /\ pc' = pc
        /\ UNCHANGED <<bailout, monitor_vars>>

(***************************************************************************)
(* main(), lines 1098-1114: gpsd_multipoll() calls the hook for each       *)
(* packet and returns a classification.                                    *)
(***************************************************************************)
fwrite_results == {0, 1}

PollPacket ==
    /\ pc = "poll"
    /\ rfds[1]
    /\ fragments < MaxFragments
    /\ \E p \in Packets, written \in fwrite_results :
          /\ gpsmon_hook(p[1], p[2], p[3], written, OtherEvent, 0, FALSE)
          /\ nonempty' = IF p[3] > 0 THEN nonempty + 1 ELSE nonempty
    /\ fragments' = fragments + 1
    /\ counter' = IF counter < MaxCounter THEN counter + 1 ELSE counter
    /\ UNCHANGED <<config_vars, readonly, fallback, cmd_calls, arg, log_vars,
                   term_vars, cmdline, rfds, fresh, history_vars, pps_active,
                   gps_open, exit_vars, render>>

poll_results ==
    IF rfds[1]
    THEN {"DEVICE_READY", "DEVICE_UNREADY", "DEVICE_ERROR", "DEVICE_EOF"}
    ELSE {"DEVICE_READY"}

\* A loop that polls again after DEVICE_UNREADY, to compare with.
poll_outcome_retry(res) ==
    CASE res = "DEVICE_READY" -> /\ pc' = "keys"
                                 /\ fragments' = 0
                                 /\ nonempty' = 0
                                 /\ UNCHANGED <<bailout, rfds, fresh>>
      [] res = "DEVICE_UNREADY" -> /\ pc' = "keys"
                                   /\ fragments' = 0
                                   /\ nonempty' = 0
                                   /\ UNCHANGED <<bailout, rfds, fresh>>
      [] res = "DEVICE_ERROR" -> longjmp_terminate(TERM_READ_ERROR)
      [] res = "DEVICE_EOF" -> longjmp_terminate(TERM_QUIT)

poll_outcome(res) ==
    CASE res = "DEVICE_READY" -> /\ pc' = "keys"
                                 /\ fragments' = 0
                                 /\ nonempty' = 0
                                 /\ UNCHANGED <<bailout, rfds, fresh>>
      [] res = "DEVICE_UNREADY" -> longjmp_terminate(TERM_EMPTY_READ)
      [] res = "DEVICE_ERROR" -> longjmp_terminate(TERM_READ_ERROR)
      [] res = "DEVICE_EOF" -> longjmp_terminate(TERM_QUIT)

PollReturn ==
    /\ pc = "poll"
    /\ \E res \in poll_results :
          /\ poll_outcome(res)
          /\ last_poll' = res
          /\ last_wait' = <<"none", FALSE>>
          /\ IF res = "DEVICE_READY"
             THEN /\ ready_polls' = IF ready_polls < MaxPolls
                                    THEN ready_polls + 1 ELSE MaxPolls
                  /\ one_each' = (one_each /\ fragments = 1 /\ nonempty = 1)
             ELSE UNCHANGED <<ready_polls, one_each>>
    /\ writes' = << >>
    /\ UNCHANGED <<config_vars, command_vars, session_vars, monitor_vars,
                   calls, complaint, log_vars, lock, term_vars, cmdline,
                   pps_active, gps_open, exit_vars,
                   hook_vars, render>>

(***************************************************************************)
(* main(), lines 1116-1135: the keystroke branch.  The read() is in the    *)
(* else branch of FD_ISSET(0, &rfds).                                      *)
(***************************************************************************)
read_results == {0, 1}

Keys ==
    /\ pc = "keys"
    /\ IF rfds[2]
       THEN /\ pc' = "cmd"
            /\ writes' = << >>
            /\ UNCHANGED <<lock, tty>>
       ELSE \E st \in read_results :
               IF st = 1
               THEN /\ lock' = TRUE
                    /\ tty' = cooked
                    /\ writes' = <<[sink |-> "stdout", locked |-> TRUE]>>
                    /\ pc' = "fgets"
               ELSE /\ pc' = "cmd"
                    /\ writes' = << >>
                    /\ UNCHANGED <<lock, tty>>
    /\ rfds' = <<FALSE, FALSE>>
    /\ fresh' = FALSE
    /\ UNCHANGED <<bailout, config_vars, command_vars, session_vars,
                   monitor_vars, calls, complaint, log_vars, cooked, rare,
                   cmdline, fragments, nonempty, history_vars, pps_active,
                   gps_open, exit_vars,
                   hook_vars, render>>

\* cmdline = fgets(inbuf+1, ...); if (cmdline) cmdline--; report_unlock()
Fgets ==
    /\ pc = "fgets"
    /\ cmdline' \in RunLines \cup {NoLine}
    /\ arg' = NoLine
    /\ lock' = FALSE
    /\ fresh' = (cmdline' # NoLine)
    /\ pc' = "cmd"
    /\ writes' = << >>
    /\ UNCHANGED <<bailout, config_vars, readonly, fallback, counter,
                   cmd_calls, session_vars,
                   monitor_vars, calls, complaint, log_vars, term_vars, rfds,
                   fragments, nonempty,
                   history_vars, pps_active, gps_open, exit_vars,
                   hook_vars, render>>

(***************************************************************************)
(* main(), lines 1136-1139: the command processor runs on cmdline.         *)
(***************************************************************************)
Command ==
    /\ pc = "cmd"
    /\ IF cmdline # NoLine
       THEN \E r \in {do_command(cmdline, a, ok, junk) :
                          a \in arg_strings(cmdline), ok \in BOOLEAN,
                          junk \in Junks} :
               /\ active' = r.active
               /\ device_type' = r.device_type
               /\ calls' = r.calls
               /\ complaint' = r.complaint
               /\ writes' = r.writes
               /\ readonly' = r.readonly
               /\ fallback' = r.fallback
               /\ counter' = r.counter
               /\ logfile' = r.logfile
               /\ sinks' = r.sinks
               /\ cmd_calls' = r.cmd_calls
               /\ arg' = r.arg
               /\ IF ~r.ret
                  THEN longjmp_terminate(TERM_QUIT)
                  ELSE /\ pc' = "rearm"
                       /\ fresh' = FALSE
                       /\ UNCHANGED <<bailout, rfds, fragments, nonempty>>
       ELSE /\ pc' = "rearm"
            /\ writes' = << >>
            /\ fresh' = FALSE
            /\ UNCHANGED <<bailout, rfds, fragments, nonempty, active,
                           device_type,
                           calls, complaint, command_vars, logfile,
                           sinks>>
    /\ UNCHANGED <<config_vars, lexer_type, outbuflen, last_type,
                   update_count, double_fclose, lock, term_vars, cmdline,
                   history_vars, pps_active, gps_open, exit_vars,
                   hook_vars, render>>

\* main(), lines 1140-1145
Rearm ==
    /\ pc = "rearm"
    /\ tty' = IF ~curses_active THEN rare ELSE tty
    /\ pc' = "await"
    /\ writes' = << >>
    /\ UNCHANGED <<bailout, config_vars, command_vars, session_vars,
                   monitor_vars, calls, complaint, log_vars, lock, cooked, rare,
                   cmdline, poll_vars, history_vars, pps_active, gps_open,
                   exit_vars,
                   hook_vars, render>>

(***************************************************************************)
(* onsig(): SIGQUIT, SIGINT or SIGTERM, from the moment the handlers are   *)
(* installed until exit().                                                 *)
(***************************************************************************)
OnSig ==
    /\ pc # "exited"
    /\ longjmp_terminate(TERM_SIGNAL)
    /\ writes' = << >>
    /\ UNCHANGED <<config_vars, command_vars, session_vars, monitor_vars,
                   calls, complaint, log_vars, lock, term_vars, cmdline,
                   history_vars, pps_active, gps_open, exit_vars,
                   hook_vars, render>>

\* onsig(), SIGABRT: raised by a failed assert() (see gpsmon_hook) or sent
\* to the process; control resumes at setjmp(assertbuf).
OnAbort ==
    /\ pc \notin {"abort", "exited"}
    /\ pc' = "abort"
    /\ rfds' = <<FALSE, FALSE>>
    /\ fresh' = FALSE
    /\ fragments' = 0
    /\ nonempty' = 0
    /\ writes' = << >>
    /\ UNCHANGED <<bailout, config_vars, command_vars, session_vars,
                   monitor_vars, calls, complaint, log_vars, lock, term_vars,
                   cmdline, history_vars, pps_active, gps_open, exit_vars,
                   hook_vars, render>>

(***************************************************************************)
(* main(), lines 1150-1194: the quit label.                                *)
(***************************************************************************)
fclose_logfile ==
    IF logfile # "null"
    THEN /\ logfile' = "stale"
         /\ double_fclose' = (double_fclose \/ logfile = "stale")
         /\ sinks' = IF logfile = "open" THEN sinks - 1 ELSE sinks
    ELSE UNCHANGED <<logfile, double_fclose, sinks>>

\* pps_thread_deactivate() if serial, gpsd_close()
QuitRelease ==
    /\ pc = "quit"
    /\ pps_active' = IF serial THEN FALSE ELSE pps_active
    /\ gps_open' = FALSE
    /\ pc' = "quit_log"
    /\ writes' = << >>
    /\ UNCHANGED <<bailout, config_vars, command_vars, session_vars,
                   monitor_vars, calls, complaint, log_vars, lock, term_vars,
                   cmdline, poll_vars, history_vars, exit_vars,
                   hook_vars, render>>

QuitLog ==
    /\ pc = "quit_log"
    /\ fclose_logfile
    /\ pc' = "quit_tty"
    /\ writes' = << >>
    /\ UNCHANGED <<bailout, config_vars, command_vars, session_vars,
                   monitor_vars, calls, complaint, lock, term_vars, cmdline,
                   poll_vars, history_vars, pps_active, gps_open, exit_vars,
                   hook_vars, render>>

explain(code) ==
    CASE code = TERM_SELECT_FAILED -> "I/O wait on device failed"
      [] code = TERM_DRIVER_SWITCH -> "Driver type switch failed"
      [] code = TERM_EMPTY_READ -> "Device went offline"
      [] code = TERM_READ_ERROR -> "Read error from device"
      [] code = TERM_SIGNAL -> "none"
      [] code = TERM_QUIT -> "none"
      [] OTHER -> "Unknown error, should never happen."

\* tcsetattr(0, TCSANOW, &cooked), the explanation, exit(EXIT_SUCCESS)
QuitExit ==
    /\ pc = "quit_tty"
    /\ tty' = IF curses_active THEN tty ELSE cooked
    /\ explanation' = explain(bailout)
    /\ exit_status' = "EXIT_SUCCESS"
    /\ pc' = "exited"
    /\ writes' = << >>
    /\ UNCHANGED <<bailout, config_vars, command_vars, session_vars,
                   monitor_vars, calls, complaint, log_vars, lock, cooked, rare,
                   cmdline, poll_vars, history_vars, pps_active, gps_open,
                   hook_vars, render>>

(***************************************************************************)
(* main(), lines 1041-1049: where longjmp(assertbuf, 1) lands.             *)
(***************************************************************************)
\* An assertion landing that leaves the log file open, to compare with.
AbortExit_keeps_log ==
    /\ pc = "abort"
    /\ explanation' = "gpsmon: assertion failure, probable I/O error"
    /\ exit_status' = "EXIT_FAILURE"
    /\ pc' = "exited"
    /\ writes' = << >>
    /\ UNCHANGED <<bailout, config_vars, command_vars, session_vars,
                   monitor_vars, calls, complaint, log_vars, lock, term_vars,
                   cmdline, poll_vars, history_vars, pps_active, gps_open,
                   hook_vars, render>>

AbortExit ==
    /\ pc = "abort"
    /\ fclose_logfile
    /\ explanation' = "gpsmon: assertion failure, probable I/O error"
    /\ exit_status' = "EXIT_FAILURE"
    /\ pc' = "exited"
    /\ writes' = << >>
    /\ UNCHANGED <<bailout, config_vars, command_vars, session_vars,
                   monitor_vars, calls, complaint, lock, term_vars, cmdline,
                   poll_vars, history_vars, pps_active, gps_open,
                   hook_vars, render>>

Next ==
    \/ Setup
    \/ AwaitInput
    \/ AwaitFailed
    \/ AwaitNotReady
    \/ PollPacket
    \/ PollReturn
    \/ Keys
    \/ Fgets
    \/ Command
    \/ Rearm
    \/ OnSig
    \/ OnAbort
    \/ QuitRelease
    \/ QuitLog
    \/ QuitExit
    \/ AbortExit

Spec == Init /\ [][Next]_vars

(***************************************************************************)
(* The switcher on its own: select_packet_monitor() is given every packet  *)
(* type, device type and payload length in turn, from the place in         *)
(* gpsd_multipoll() where the per-packet hook is called.  No function of   *)
(* gpsmon.c calls select_packet_monitor(), so Spec has no such step.       *)
(***************************************************************************)
PayloadLengths == {0, 1}

SwitcherInit ==
    /\ pc = "poll"
    /\ bailout = 0
    /\ serial \in BOOLEAN
    /\ nocurses = TRUE
    /\ screen \in Screens
    /\ active = 0
    /\ last_type = "BAD_PACKET"
    /\ lexer_type = "BAD_PACKET"
    /\ device_type = "NULL"
    /\ outbuflen = 0
    /\ calls = << >>
    /\ complaint = "none"
    /\ writes = << >>
    /\ update_count = 0
    /\ logfile = "null"
    /\ sinks = 0
    /\ matches = 0
    /\ nmea = FALSE
    /\ time_offset = 0
    /\ pps_out = 0
    /\ ppsout_count = 0
    /\ newdata_time = 0
    /\ fix_in_real = 0
    /\ latch_calls = << >>
    /\ last_event = <<"none", 0, 0>>
    /\ render = NoRender
    /\ double_fclose = FALSE
    /\ lock = FALSE
    /\ tty = "rare"
    /\ cooked = "prior"
    /\ rare = "rare"
    /\ cmdline = NoLine
    /\ rfds = <<TRUE, FALSE>>
    /\ fresh = FALSE
    /\ fragments = 0
    /\ nonempty = 0
    /\ last_poll = "none"
    /\ ready_polls = 0
    /\ one_each = TRUE
    /\ last_wait = <<"none", FALSE>>
    /\ readonly = TRUE
    /\ fallback = "NULL"
    /\ counter = 0
    /\ cmd_calls = << >>
    /\ arg = NoLine
    /\ pps_active = serial
    /\ gps_open = TRUE
    /\ explanation = "none"
    /\ exit_status = "running"

SwitcherPacket ==
    /\ pc = "poll"
    /\ update_count < MaxUpdates
    /\ \E t \in PacketTypes, d \in Drivers, n \in PayloadLengths :
          /\ lexer_type' = t
          /\ device_type' = d
          /\ outbuflen' = n
          /\ select_packet_monitor(t, d, n)
    /\ UNCHANGED <<config_vars, command_vars, log_vars, lock, term_vars,
                   cmdline, history_vars, pps_active, gps_open, exit_vars,
                   hook_vars, render>>

SwitcherNext ==
    \/ SwitcherPacket
    \/ QuitRelease
    \/ QuitLog
    \/ QuitExit

SwitcherSpec == SwitcherInit /\ [][SwitcherNext]_vars


(***************************************************************************)
(* The command processor on its own: do_command() is given every line of   *)
(* CmdLines, one after the other, in a session that has any device type,   *)
(* policy flag, fallback and log file; NextLine is the loop coming round   *)
(* with the next line and no packet in between.                            *)
(***************************************************************************)
Fallbacks == {"NULL", "driver_nmea0183", "driver_ubx"}

CommandInit ==
    /\ pc = "cmd"
    /\ bailout = 0
    /\ serial \in BOOLEAN
    /\ nocurses = TRUE
    /\ screen = <<HEIGHT + 1, WIDTH>>
    /\ active = 0
    /\ last_type = "BAD_PACKET"
    /\ lexer_type \in {"BAD_PACKET", "NMEA_PACKET"}
    /\ device_type \in Drivers \cup {"NULL"}
    /\ outbuflen = 0
    /\ calls = << >>
    /\ complaint = "none"
    /\ writes = << >>
    /\ update_count = 0
    /\ logfile \in {"null", "open"}
    /\ sinks = IF logfile = "open" THEN 1 ELSE 0
    /\ matches = 0
    /\ nmea = FALSE
    /\ time_offset = 0
    /\ pps_out = 0
    /\ ppsout_count = 0
    /\ newdata_time = 0
    /\ fix_in_real = 0
    /\ latch_calls = << >>
    /\ last_event = <<"none", 0, 0>>
    /\ render = NoRender
    /\ double_fclose = FALSE
    /\ lock = FALSE
    /\ tty = "prior"
    /\ cooked = "prior"
    /\ rare = "rare"
    /\ cmdline \in CmdLines
    /\ rfds = <<FALSE, FALSE>>
    /\ fresh = TRUE
    /\ fragments = 0
    /\ nonempty = 0
    /\ last_poll = "DEVICE_READY"
    /\ ready_polls = 0
    /\ one_each = TRUE
    /\ last_wait = <<"none", FALSE>>
    /\ readonly \in BOOLEAN
    /\ fallback \in Fallbacks
    /\ counter \in 0..MaxCounter
    /\ cmd_calls = << >>
    /\ arg = NoLine
    /\ pps_active = serial
    /\ gps_open = TRUE
    /\ explanation = "none"
    /\ exit_status = "running"

NextLine ==
    /\ pc = "rearm"
    /\ cmdline' \in CmdLines
    /\ arg' = NoLine
    /\ fresh' = TRUE
    /\ pc' = "cmd"
    /\ writes' = << >>
    /\ UNCHANGED <<bailout, config_vars, readonly, fallback, counter,
                   cmd_calls, session_vars,
                   monitor_vars, calls, complaint, log_vars, lock, term_vars,
                   rfds, fragments,
                   nonempty, history_vars, pps_active, gps_open, exit_vars,
                   hook_vars, render>>

CommandNext ==
    \/ Command
    \/ NextLine
    \/ QuitRelease
    \/ QuitLog
    \/ QuitExit

CommandSpec == CommandInit /\ [][CommandNext]_vars


(***************************************************************************)
(* Properties of the switcher, SwitcherSpec.  In a step of SwitcherSpec    *)
(* taken at pc = "poll", select_packet_monitor() ran on the packet         *)
(* <<lexer_type', device_type', outbuflen'>>; it saw a type transition     *)
(* when lexer_type' # last_type.                                           *)
(***************************************************************************)

\* C1: after the switcher has processed a packet, the active handler is the
\* one registry entry (there is at most one) whose descriptor is the packet's
\* device type, or the generic NMEA type where the override applies, if the
\* packet's type was a transition and that entry fits the screen; it is the
\* handler active before if the entry does not fit or there was no
\* transition.
C1_ActiveIsRegistryMatch ==
    [][pc = "poll" =>
         LET target == IF lexer_type' = "NMEA_PACKET" /\ DRIVER_STICKY(device_type')
                       THEN "driver_nmea0183" ELSE device_type'
             matching == {i \in DOMAIN monitor_objects :
                            monitor_objects[i].driver = target}
         IN  /\ Cardinality(matching) <= 1
             /\ lexer_type' = last_type => active' = active
             /\ lexer_type' # last_type =>
                  \A m \in matching :
                     IF /\ ScreenLines > monitor_objects[m].min_y
                        /\ ScreenCols >= monitor_objects[m].min_x
                     THEN active' = m
                     ELSE active' = active]_vars

\* C1: two transitions have been processed; the second replaced the NMEA
\* handler by the JSON one.
C1_Witness ==
    /\ pc = "poll"
    /\ active = 2
    /\ last_type = "JSON_PACKET"
    /\ Len(calls) >= 2
    /\ calls[1] = Event("wrap", 1)

\* C4: when the registry entry for the new type needs more rows or columns
\* than the screen has, the step leaves the active handler as it was, calls
\* no wrap hook and no initialize hook and installs nothing, reports the
\* "requires screen" error, and main() stays in its loop with no
\* termination cause set.
C4_TooSmallRefused ==
    [][(pc = "poll" /\ lexer_type' # last_type) =>
         LET target == IF lexer_type' = "NMEA_PACKET" /\ DRIVER_STICKY(device_type')
                       THEN "driver_nmea0183" ELSE device_type'
             matching == {i \in DOMAIN monitor_objects :
                            monitor_objects[i].driver = target}
         IN  \A m \in matching :
                (\/ ScreenLines <= monitor_objects[m].min_y
                 \/ ScreenCols < monitor_objects[m].min_x) =>
                   /\ active' = active
                   /\ \A i \in DOMAIN calls' :
                         calls'[i].op \notin {"wrap", "initialize", "activate"}
                   /\ complaint' = "requires_screen"
                   /\ pc' = "poll"
                   /\ bailout' = bailout]_vars

\* C4: the JSON handler is active and a change to NMEA was just refused on a
\* screen one row short.
C4_Witness ==
    /\ pc = "poll"
    /\ complaint = "requires_screen"
    /\ active = 2
    /\ last_type = "NMEA_PACKET"
    /\ ScreenLines = HEIGHT

C2_LeaveBeforeInitialize ==
    [][(active # 0 /\ active' # active) =>
         LET leave == {i \in DOMAIN calls' : calls'[i] = Event("wrap", active)}
             enter == {i \in DOMAIN calls' :
                          /\ calls'[i].obj = active'
                          /\ calls'[i].op \in {"activate", "initialize"}}
         IN  /\ monitor_objects[active].wrap => leave # {}
             /\ enter # {}
             /\ \A i \in leave, j \in enter : i < j]_vars

\* C2: the NMEA handler was wrapped up and the JSON handler then installed.
C2_Witness ==
    /\ active = 2
    /\ Len(calls) >= 2
    /\ calls[1] = Event("wrap", 1)
    /\ calls[2] = Event("activate", 2)

\* C3: whenever a step has installed a handler that has an initialize hook,
\* the same step calls that hook after installing it.
C3_InitializeAfterSwitch ==
    \A i \in DOMAIN calls :
       (calls[i].op = "activate" /\ monitor_objects[calls[i].obj].initialize) =>
          \E j \in DOMAIN calls :
             j > i /\ calls[j] = Event("initialize", calls[i].obj)

\* C7: in every step in which gpsd_multipoll() delivers a packet, the update
\* hook is called at most once, and it is called exactly when a handler is
\* active, that handler has an update hook, and the packet's payload is not
\* empty.
C7_UpdatePerPacket ==
    [][(pc = "poll" /\ fragments' = fragments + 1) =>
         LET runs == {i \in DOMAIN calls' : calls'[i].op = "update"}
         IN  /\ Cardinality(runs) <= 1
             /\ (runs # {}) <=> (/\ active' # 0
                                 /\ monitor_objects[active'].update
                                 /\ outbuflen' > 0)]_vars

\* C8: when gpsd_multipoll() returns, DEVICE_READY lets main() go on to the
\* keystroke branch with no cause set, DEVICE_UNREADY sets cause
\* TERM_EMPTY_READ, DEVICE_ERROR sets TERM_READ_ERROR and DEVICE_EOF sets
\* TERM_QUIT, each of these three jumping to the shutdown path; and once a
\* turn's classification is one of the three, no step delivers a packet,
\* calls a hook, runs a command or polls again: main() only moves along the
\* shutdown path (or, on SIGABRT, to the assertion landing).
C8_IntakeOutcomes ==
    [][/\ (last_poll = "none" /\ last_poll' # "none") =>
            CASE last_poll' = "DEVICE_READY" ->
                    pc' = "keys" /\ bailout' = bailout
              [] last_poll' = "DEVICE_UNREADY" ->
                    pc' = "quit" /\ bailout' = TERM_EMPTY_READ
              [] last_poll' = "DEVICE_ERROR" ->
                    pc' = "quit" /\ bailout' = TERM_READ_ERROR
              [] last_poll' = "DEVICE_EOF" ->
                    pc' = "quit" /\ bailout' = TERM_QUIT
              [] OTHER -> FALSE
       /\ last_poll \in {"DEVICE_UNREADY", "DEVICE_ERROR", "DEVICE_EOF"} =>
            /\ last_poll' = last_poll
            /\ pc' \in {"quit", "quit_log", "quit_tty", "abort", "exited"}
            /\ UNCHANGED <<session_vars, monitor_vars, calls, complaint>>]_vars

\* C8: a run has ended on a read error.
C8_Witness ==
    /\ pc = "exited"
    /\ last_poll = "DEVICE_ERROR"
    /\ bailout = TERM_READ_ERROR
    /\ explanation = "Read error from device"

\* C9: a run that no signal cut short, in which gpsd_multipoll() returned
\* DEVICE_READY twice, having delivered one non-empty packet each time, and
\* then DEVICE_EOF, has ended with cause TERM_QUIT, without an explanation,
\* with exit status EXIT_SUCCESS and after exactly two calls of the update
\* hook.
C9_ReadyReadyEof ==
    (/\ pc = "exited"
     /\ last_poll = "DEVICE_EOF"
     /\ ready_polls = 2
     /\ one_each
     /\ bailout # TERM_SIGNAL) =>
       /\ bailout = TERM_QUIT
       /\ explanation = "none"
       /\ exit_status = "EXIT_SUCCESS"
       /\ update_count = 2

\* C10: when main() has left its loop with a termination cause and exited
\* through the quit label, the PPS thread is not running, the transport is
\* closed, the log file is not open, the terminal is in the mode it had when
\* gpsmon started, and an explanation was written exactly when the cause is
\* neither TERM_QUIT nor TERM_SIGNAL.
C10_UnifiedShutdown ==
    (/\ pc = "exited"
     /\ exit_status = "EXIT_SUCCESS"
     /\ bailout # 0) =>
       /\ ~pps_active
       /\ ~gps_open
       /\ logfile # "open"
       /\ tty = "prior"
       /\ (explanation # "none") <=> (bailout \notin {TERM_QUIT, TERM_SIGNAL})


\* C11: once main() is on the shutdown path with a termination cause, no
\* step changes the cause, starts the shutdown path again from the quit
\* label, or gives fclose() a log file that was already closed.
C11_CauseSetOnce ==
    [][(pc \in {"quit", "quit_log", "quit_tty"} /\ bailout # 0) =>
         /\ bailout' = bailout
         /\ pc # "quit" => pc' # "quit"
         /\ ~double_fclose']_vars

\* C12, as the specification states it: every return of gpsd_await_data()
\* other than AWAIT_GOT_INPUT and AWAIT_TIMEOUT ends the loop with cause
\* TERM_SELECT_FAILED.
C12_EveryOtherOutcomeFatal ==
    [][(/\ pc = "await"
        /\ last_wait' # last_wait
        /\ last_wait'[1] \notin {"AWAIT_GOT_INPUT", "AWAIT_TIMEOUT"}) =>
          (pc' = "quit" /\ bailout' = TERM_SELECT_FAILED)]_vars

\* C12, amended: AWAIT_GOT_INPUT and AWAIT_TIMEOUT go on to packet intake;
\* AWAIT_FAILED, and AWAIT_NOT_READY with the device's descriptor flagged
\* in the exception set, end the loop with cause TERM_SELECT_FAILED, for
\* which the shutdown path prints "I/O wait on device failed";
\* AWAIT_NOT_READY without that flag sets no cause and the loop waits again.
C12_WaitOutcomes ==
    [][/\ (pc = "await" /\ last_wait' # last_wait) =>
            CASE last_wait'[1] \in {"AWAIT_GOT_INPUT", "AWAIT_TIMEOUT"} ->
                    pc' = "poll" /\ bailout' = bailout
              [] last_wait'[1] = "AWAIT_FAILED" ->
                    pc' = "quit" /\ bailout' = TERM_SELECT_FAILED
              [] last_wait' = <<"AWAIT_NOT_READY", TRUE>> ->
                    pc' = "quit" /\ bailout' = TERM_SELECT_FAILED
              [] last_wait' = <<"AWAIT_NOT_READY", FALSE>> ->
                    pc' = "await" /\ bailout' = bailout
              [] OTHER -> FALSE
       /\ (bailout = TERM_SELECT_FAILED /\ pc = "quit_tty" /\ pc' = "exited") =>
            explanation' = "I/O wait on device failed"]_vars

\* C12: a run has ended on an exception condition of the device's
\* descriptor.
C12_Witness ==
    /\ pc = "exited"
    /\ bailout = TERM_SELECT_FAILED
    /\ last_wait = <<"AWAIT_NOT_READY", TRUE>>
    /\ explanation = "I/O wait on device failed"

\* C13: raising SIGABRT moves control to the assertion landing without
\* setting a termination cause or doing anything else; the landing closes
\* the log file if it is open, writes the assertion message and exits with
\* EXIT_FAILURE, and it does not deactivate PPS, close the transport, touch
\* the terminal or write a termination-cause message.
C13_AbortPath ==
    [][/\ (pc # "abort" /\ pc' = "abort") =>
            /\ bailout' = bailout
            /\ UNCHANGED <<pps_active, gps_open, tty, log_vars, exit_vars>>
       /\ (pc = "abort" /\ pc' = "exited") =>
            /\ logfile = "open" => logfile' = "stale"
            /\ explanation' = "gpsmon: assertion failure, probable I/O error"
            /\ exit_status' = "EXIT_FAILURE"
            /\ UNCHANGED <<bailout, pps_active, gps_open, tty>>]_vars

\* C13: an abort during the loop of a low-level session that logs: the log
\* is closed, PPS and the transport are as they were, the terminal is still
\* in rare mode.
C13_Witness ==
    /\ pc = "exited"
    /\ exit_status = "EXIT_FAILURE"
    /\ explanation = "gpsmon: assertion failure, probable I/O error"
    /\ logfile = "stale"
    /\ ~double_fclose
    /\ pps_active
    /\ gps_open
    /\ tty = "rare"

(***************************************************************************)
(* main(), lines 861-1039: the option loop, the source specification and   *)
(* gpsd_activate(), on their own.  The run starts in main() with the       *)
(* statics zeroed and stops where Setup takes over.                        *)
(***************************************************************************)
\* strings given to -t
OptTypes == {<< >>, <<"N">>, <<"J", "S">>, <<"z">>}

\* str_starts_with(str, prefix)
str_starts_with(str, prefix) ==
    /\ Len(prefix) <= Len(str)
    /\ SubSeq(str, 1, Len(prefix)) = prefix

\* exit(status) from main() before the loop
exit(status, message) ==
    /\ pc' = "exited"
    /\ exit_status' = status
    /\ explanation' = message

StartupInit ==
    /\ pc = "options"
    /\ bailout = 0
    /\ serial = FALSE
    /\ nocurses = FALSE
    /\ screen \in RunScreens
    /\ active = 0
    /\ last_type = "BAD_PACKET"
    /\ lexer_type = "BAD_PACKET"
    /\ device_type = "NULL"
    /\ outbuflen = 0
    /\ calls = << >>
    /\ complaint = "none"
    /\ writes = << >>
    /\ update_count = 0
    /\ logfile = "null"
    /\ sinks = 0
    /\ matches = 0
    /\ nmea = FALSE
    /\ time_offset = 0
    /\ pps_out = 0
    /\ ppsout_count = 0
    /\ newdata_time = 0
    /\ fix_in_real = 0
    /\ latch_calls = << >>
    /\ last_event = <<"none", 0, 0>>
    /\ render = NoRender
    /\ double_fclose = FALSE
    /\ lock = FALSE
    /\ tty = "prior"
    /\ cooked = "unset"
    /\ rare = "unset"
    /\ cmdline = NoLine
    /\ rfds = <<FALSE, FALSE>>
    /\ fresh = FALSE
    /\ fragments = 0
    /\ nonempty = 0
    /\ last_poll = "none"
    /\ ready_polls = 0
    /\ one_each = TRUE
    /\ last_wait = <<"none", FALSE>>
    /\ readonly = FALSE
    /\ fallback = "NULL"
    /\ counter = 0
    /\ cmd_calls = << >>
    /\ arg = NoLine
    /\ pps_active = FALSE
    /\ gps_open = FALSE
    /\ explanation = "none"
    /\ exit_status = "running"

\* case 'a', case 'n'
OptionFlag ==
    /\ pc = "options"
    /\ \/ nocurses' = TRUE /\ UNCHANGED nmea
       \/ nmea' = TRUE /\ UNCHANGED nocurses
    /\ writes' = << >>
    /\ UNCHANGED <<pc, bailout, serial, screen, matches, command_vars,
                   session_vars, monitor_vars, calls, complaint, log_vars, lock,
                   term_vars, cmdline, poll_vars, history_vars, pps_active,
                   gps_open, exit_vars,
                   hook_vars, render>>

\* case 'l': logfile = fopen(optarg, "w")
OptionLogfile ==
    /\ pc = "options"
    /\ sinks < MaxSinks
    /\ \E ok \in BOOLEAN :
          IF ok
          THEN /\ logfile' = "open"
               /\ sinks' = sinks + 1
               /\ UNCHANGED <<pc, exit_vars>>
          ELSE /\ logfile' = "null"
               /\ UNCHANGED sinks
               /\ exit("EXIT_FAILURE", "Couldn't open logfile for writing.")
    /\ writes' = << >>
    /\ UNCHANGED <<bailout, config_vars, command_vars, session_vars,
                   monitor_vars, calls, complaint, double_fclose, lock, term_vars,
                   cmdline, poll_vars, history_vars, pps_active, gps_open,
                   hook_vars, render>>

\* case 't': the loop runs active over monitor_objects
OptionType ==
    /\ pc = "options"
    /\ \E optarg \in OptTypes :
          LET hits == {i \in DOMAIN monitor_objects :
                          str_starts_with(type_name(monitor_objects[i].driver),
                                          optarg)}
          IN  /\ matches' = matches + Cardinality(hits)
              /\ fallback' = IF hits = {} THEN "NULL"
                             ELSE monitor_objects[
                                    CHOOSE i \in hits :
                                       \A k \in hits : k <= i].driver
              /\ IF matches' > 1
                 THEN /\ exit("EXIT_FAILURE",
                              "-t option matched more than one driver.")
                      /\ active' = Len(monitor_objects) + 1
                 ELSE IF matches' = 0
                 THEN /\ exit("EXIT_FAILURE",
                              "-t option didn't match any driver.")
                      /\ active' = Len(monitor_objects) + 1
                 ELSE /\ active' = 0
                      /\ UNCHANGED <<pc, exit_vars>>
    /\ writes' = << >>
    /\ UNCHANGED <<bailout, serial, nocurses, screen, nmea, readonly, counter,
                   cmd_calls, arg, session_vars, last_type, update_count,
                   calls, complaint, log_vars, lock, term_vars, cmdline,
                   poll_vars, history_vars, pps_active, gps_open,
                   hook_vars, render>>

\* case 'L', 'V', 'h', '?' and default
OptionExit ==
    /\ pc = "options"
    /\ \E status \in {"EXIT_SUCCESS", "EXIT_FAILURE"} :
          exit(status, IF status = "EXIT_FAILURE" THEN "usage" ELSE "none")
    /\ writes' = << >>
    /\ UNCHANGED <<bailout, config_vars, command_vars, session_vars,
                   monitor_vars, calls, complaint, log_vars, lock, term_vars,
                   cmdline, poll_vars, history_vars, pps_active, gps_open,
                   hook_vars, render>>

\* getopt() returns -1; serial = str_starts_with(argv[optind], "/dev")
OptionsEnd ==
    /\ pc = "options"
    /\ serial' \in BOOLEAN
    /\ pc' = "activate"
    /\ writes' = << >>
    /\ UNCHANGED <<bailout, nocurses, screen, matches, nmea, command_vars,
                   session_vars, monitor_vars, calls, complaint, log_vars, lock,
                   term_vars, cmdline, poll_vars, history_vars, pps_active,
                   gps_open, exit_vars,
                   hook_vars, render>>

\* gpsd_activate(), pps_thread_activate() or gps_send(), context.readonly
Activate ==
    /\ pc = "activate"
    /\ \E activated \in {0 - 1, 3} :
          IF 0 > activated
          THEN /\ exit("EXIT_FAILURE", "none")
               /\ UNCHANGED <<readonly, pps_active, gps_open>>
          ELSE /\ gps_open' = TRUE
               /\ pps_active' = serial
               /\ readonly' = TRUE
               /\ pc' = "setup"
               /\ UNCHANGED exit_vars
    /\ writes' = << >>
    /\ UNCHANGED <<bailout, config_vars, fallback, counter, cmd_calls, arg,
                   session_vars, monitor_vars, calls, complaint, log_vars, lock,
                   term_vars, cmdline, poll_vars, history_vars,
                   hook_vars, render>>

StartupNext ==
    \/ OptionFlag
    \/ OptionLogfile
    \/ OptionType
    \/ OptionExit
    \/ OptionsEnd
    \/ Activate

StartupSpec == StartupInit /\ [][StartupNext]_vars

(***************************************************************************)
(* gpsmon_hook() on its own: every kind of packet, with every fix time, on *)
(* a relayed or a low-level session, with or without a log file.           *)
(***************************************************************************)
Times == {0 - 1, 0, 1, 2}

HookPackets == {<<"JSON_PACKET", "driver_json_passthrough", 1>>,
                <<"NMEA_PACKET", "driver_nmea0183", 1>>}

HookInit ==
    /\ pc = "poll"
    /\ bailout = 0
    /\ serial \in BOOLEAN
    /\ nocurses = TRUE
    /\ screen = <<0, 0>>
    /\ active = 0
    /\ last_type = "BAD_PACKET"
    /\ lexer_type = "BAD_PACKET"
    /\ device_type = "NULL"
    /\ outbuflen = 0
    /\ calls = << >>
    /\ complaint = "none"
    /\ writes = << >>
    /\ update_count = 0
    /\ logfile \in {"null", "open"}
    /\ sinks = IF logfile = "open" THEN 1 ELSE 0
    /\ matches = 0
    /\ nmea = FALSE
    /\ time_offset = 0
    /\ pps_out = 0
    /\ ppsout_count = 0
    /\ newdata_time = 0
    /\ fix_in_real = 0
    /\ latch_calls = << >>
    /\ last_event = <<"none", 0, 0>>
    /\ render = NoRender
    /\ double_fclose = FALSE
    /\ lock = FALSE
    /\ tty = "rare"
    /\ cooked = "prior"
    /\ rare = "rare"
    /\ cmdline = NoLine
    /\ rfds = <<TRUE, FALSE>>
    /\ fresh = FALSE
    /\ fragments = 0
    /\ nonempty = 0
    /\ last_poll = "none"
    /\ ready_polls = 0
    /\ one_each = TRUE
    /\ last_wait = <<"AWAIT_GOT_INPUT", FALSE>>
    /\ readonly = TRUE
    /\ fallback = "NULL"
    /\ counter = 0
    /\ cmd_calls = << >>
    /\ arg = NoLine
    /\ pps_active = serial
    /\ gps_open = TRUE
    /\ explanation = "none"
    /\ exit_status = "running"

HookPacket ==
    /\ pc = "poll"
    /\ \E p \in HookPackets, written \in fwrite_results, ev \in HookEvents,
          time \in Times, latched \in BOOLEAN :
          /\ (ev[1] = "PPS" /\ ev[2] = 0) => ppsout_count < MaxPulses
          /\ gpsmon_hook(p[1], p[2], p[3], written, ev, time, latched)
    /\ UNCHANGED <<config_vars, command_vars, log_vars, term_vars, cmdline,
                   poll_vars, history_vars, pps_active, gps_open, exit_vars,
                   render>>

HookNext ==
    \/ HookPacket
    \/ AbortExit

HookSpec == HookInit /\ [][HookNext]_vars

(***************************************************************************)
(* Claims about the command processor, checked under CommandSpec: in a     *)
(* state with pc = "rearm" do_command() has just returned from cmdline.    *)
(***************************************************************************)
\* C14: on a low-level session with a device whose selected driver has a
\* speed switcher, the line "s 4800:8N1" calls the speed switcher with speed
\* 4800, parity N and one stop bit, and the line "s 4800:9N1" is refused
\* without a call.
C14_SpeedCommandParsed ==
    (/\ pc = "rearm"
     /\ serial
     /\ device_type # "NULL"
     /\ speed_switcher(Switcher("speed_switcher"))) =>
        /\ cmdline = <<"s", " ", "4", "8", "0", "0", ":", "8", "N", "1">> =>
             \E i \in DOMAIN cmd_calls :
                /\ cmd_calls[i].op = "speed_switcher"
                /\ cmd_calls[i].speed = 4800
                /\ cmd_calls[i].parity = "N"
                /\ cmd_calls[i].stopbits = 1
        /\ cmdline = <<"s", " ", "4", "8", "0", "0", ":", "9", "N", "1">> =>
             /\ cmd_calls = << >>
             /\ complaint # "none"

\* C15: an 's' command whose argument has a ':' suffix with a word length
\* other than 7 or 8, a parity other than N, O or E, or a stop-bit count
\* other than 1 or 2 (a field the line ends before counts as invalid) is
\* refused: no speed switcher call, no change of the line speed, and the
\* read-only flag is left as it was.
C15_BadFramingRefused ==
    [][(/\ pc = "cmd"
        /\ cmdline # NoLine
        /\ cmdline[1] = "s"
        /\ LET k == strchr(arg', ":")
               field(j) == IF k + j <= Len(arg') THEN arg'[k + j]
                           ELSE "missing"
           IN  /\ k # 0
               /\ \/ field(1) \notin {"7", "8"}
                  \/ field(2) \notin {"N", "O", "E"}
                  \/ field(3) \notin {"1", "2"}) =>
          /\ cmd_calls' = << >>
          /\ complaint' # "none"
          /\ readonly' = readonly]_vars

C17_ArgIsRemainder ==
    (pc = "rearm" /\ cmdline # NoLine) =>
        arg = SubSeq(cmdline, skip_space(cmdline, 2), Len(cmdline))

\* C18: after a 'c', 'n', 's' or 'x' command the read-only flag has the
\* value it had before the command, whatever that was; it is off only in
\* the driver method calls the command makes.
C18_ReadonlyRestored ==
    [][(/\ pc = "cmd"
        /\ cmdline # NoLine
        /\ cmdline[1] \in {"c", "n", "s", "x"}) =>
          /\ readonly' = readonly
          /\ \A i \in DOMAIN cmd_calls' :
                cmd_calls'[i].op \in {"rate_switcher", "mode_switcher",
                                      "speed_switcher", "control_send"} =>
                   ~cmd_calls'[i].readonly]_vars

\* C19 as stated: on a low-level session with a known device, 'i' without
\* 0 or 1 toggles probing, "i 0" disables it, "i 1" enables it, and the
\* packet counter is reset whenever the command leaves probing disabled.
C19_ResetWhenDisabled ==
    [][(/\ pc = "cmd"
        /\ cmdline # NoLine
        /\ cmdline[1] = "i"
        /\ serial
        /\ device_type # "NULL") =>
          /\ cmdline = <<"i", "\n">> => readonly' = ~readonly
          /\ cmdline \in {<<"i", "0", "\n">>, <<"i", " ", "0", "\n">>} =>
                readonly'
          /\ cmdline \in {<<"i", "1", "\n">>, <<"i", " ", "1", "\n">>} =>
                ~readonly'
          /\ readonly' => counter' = 0]_vars

\* C19, amended: the same toggling, disabling and enabling; the packet
\* counter is reset whenever the command leaves probing enabled, and is left
\* alone when it leaves probing disabled.
C19_ResetWhenEnabled ==
    [][(/\ pc = "cmd"
        /\ cmdline # NoLine
        /\ cmdline[1] = "i"
        /\ serial
        /\ device_type # "NULL") =>
          /\ cmdline = <<"i", "\n">> => readonly' = ~readonly
          /\ cmdline \in {<<"i", "0", "\n">>, <<"i", " ", "0", "\n">>} =>
                readonly'
          /\ cmdline \in {<<"i", "1", "\n">>, <<"i", " ", "1", "\n">>} =>
                ~readonly'
          /\ ~readonly' => counter' = 0
          /\ readonly' => counter' = counter]_vars

\* C19: "i 0" has left probing disabled with packets counted, and the count
\* is still there.
C19_Witness ==
    /\ pc = "rearm"
    /\ cmdline = <<"i", " ", "0", "\n">>
    /\ serial
    /\ device_type # "NULL"
    /\ readonly
    /\ counter > 0
    /\ complaint = "none"

\* C20: the 'l' command closes the open log file, if any, and opens the file
\* it names for appending; when that fails no log file is left.  Either way
\* it calls no driver method, writes nothing to the device, and leaves the
\* read-only flag and the fallback driver as they were.
C20_LogCommandFrame ==
    [][(/\ pc = "cmd"
        /\ cmdline # NoLine
        /\ cmdline[1] = "l") =>
          /\ logfile' \in {"open", "null"}
          /\ \A i \in DOMAIN cmd_calls' :
                cmd_calls'[i].op \in {"fclose", "fopen"}
          /\ (logfile = "open") =>
                (cmd_calls' # << >> /\ cmd_calls'[1].op = "fclose")
          /\ readonly' = readonly
          /\ fallback' = fallback]_vars

\* C21 as stated: on a low-level session, after an 'n' command that asks for
\* mode 0 and calls a mode switcher, fallback is the session's device type.
C21_FallbackIsDeviceType ==
    [][(/\ pc = "cmd"
        /\ cmdline = <<"n", "0", "\n">>
        /\ serial
        /\ \E i \in DOMAIN cmd_calls' : cmd_calls'[i].op = "mode_switcher") =>
          fallback' = device_type']_vars

\* C21, amended: after such a command fallback is the driver whose mode
\* switcher was called: the fallback from before when that was set and has a
\* mode switcher, and only otherwise the session's device type.
C21_FallbackIsSwitcher ==
    [][(/\ pc = "cmd"
        /\ cmdline = <<"n", "0", "\n">>
        /\ serial
        /\ \E i \in DOMAIN cmd_calls' : cmd_calls'[i].op = "mode_switcher") =>
          /\ device_type' = device_type
          /\ fallback' = IF fallback # "NULL" /\ mode_switcher(fallback)
                         THEN fallback ELSE device_type
          /\ \A i \in DOMAIN cmd_calls' :
                /\ cmd_calls'[i].driver = fallback'
                /\ cmd_calls'[i].speed = 0]_vars

\* C21: "n0" on a session that resynchronised to NMEA while the fallback is
\* the binary driver: its mode switcher was called and it stays the fallback.
C21_Witness ==
    /\ pc = "rearm"
    /\ cmdline = <<"n", "0", "\n">>
    /\ serial
    /\ device_type = "driver_nmea0183"
    /\ fallback = "driver_ubx"
    /\ cmd_calls # << >>
    /\ cmd_calls[1].op = "mode_switcher"
    /\ cmd_calls[1].driver = "driver_ubx"

\* C22: a 't' command on a low-level session.  When no driver or more than
\* one driver matches its argument it complains and changes neither the
\* active monitor nor the session's driver; when it tells the session to
\* switch driver, exactly one driver matched and the active monitor is now
\* the monitor of that driver.
C22_ForceOnlyAfterSwitch ==
    [][(/\ pc = "cmd"
        /\ cmdline # NoLine
        /\ cmdline[1] = "t"
        /\ serial) =>
          LET matching == {d \in Drivers : strstr(type_name(d), arg')}
              forced == \E i \in DOMAIN calls' :
                           calls'[i].op = "gpsd_switch_driver"
          IN  /\ (Len(arg') > 0 /\ Cardinality(matching) # 1) =>
                    /\ complaint' # "none"
                    /\ ~forced
                    /\ active' = active
                    /\ device_type' = device_type
              /\ forced =>
                    /\ Cardinality(matching) = 1
                    /\ active' # 0
                    /\ monitor_objects[active'].driver \in matching]_vars

\* C23: outside a low-level session the commands c, i, n, s, t, x and X, and
\* without a known device type the commands c, i, n, s and x, only complain:
\* no driver method is called, nothing is written, and the active monitor,
\* the session's driver, the read-only flag, the packet counter and the
\* fallback driver stay as they were.
C23_UnavailableOnlyReports ==
    [][(/\ pc = "cmd"
        /\ cmdline # NoLine
        /\ \/ ~serial /\ cmdline[1] \in {"c", "i", "n", "s", "t", "x", "X"}
           \/ device_type = "NULL" /\ cmdline[1] \in {"c", "i", "n", "s", "x"}) =>
          /\ complaint' \in {"low_level_only", "no_device", "no_gps_type"}
          /\ cmd_calls' = << >>
          /\ calls' = << >>
          /\ pc' = "rearm"
          /\ UNCHANGED <<active, device_type, readonly, counter, fallback,
                         logfile>>]_vars

\* C23: "X4142" on a session that is not low-level was refused.
C23_Witness ==
    /\ pc = "rearm"
    /\ ~serial
    /\ cmdline = <<"X", "4", "1", "4", "2">>
    /\ arg = <<"4", "1", "4", "2">>
    /\ complaint = "low_level_only"
    /\ cmd_calls = << >>

\* C24: at every moment at most one log file is open, and no log file is
\* closed twice.
C24_OneSinkClosedOnce ==
    /\ sinks <= 1
    /\ ~double_fclose

C26_PulseStoredAndCounted ==
    [][pc = "poll" =>
         LET ev == last_event' IN
         IF ~serial /\ ev[1] = "PPS" /\ ev[2] = 0
         THEN /\ pps_out' = ev[3]
              /\ ppsout_count' = ppsout_count + 1
         ELSE /\ ppsout_count' = ppsout_count
              /\ pps_out' = pps_out
              /\ (~serial /\ ev[1] \in {"PPS", "TOFF"} /\ ev[2] # 0) =>
                    time_offset' = time_offset]_vars

\* C26: two pulses were counted, the latest with sample 1; then came an
\* ill-formed PPS report that carried sample 2.
C26_Witness ==
    /\ ~serial
    /\ ppsout_count = 2
    /\ pps_out = 1
    /\ last_event = <<"PPS", 3, 2>>
    /\ complaint = "ill_formed_pps"

\* C30 as stated: after every packet given to the hook the fix time is
\* compared, and ntp_latch() is called when it is positive and greater than
\* the time of the last recorded fix.
C30_LatchAfterEveryPacket ==
    [][pc = "poll" =>
         ((newdata_time' > 0 /\ newdata_time' > fix_in_real)
            <=> latch_calls' # << >>)]_vars

\* C30, amended: the comparison is made after every packet but a TOFF
\* report and an ill-formed PPS report on a relayed session, for which the
\* hook returns at once, and a packet whose log write fails.
C30_LatchAfterReportedPacket ==
    [][pc = "poll" =>
         LET ev == last_event'
             skipped == \/ ~serial /\ ev[1] = "TOFF"
                        \/ ~serial /\ ev[1] = "PPS" /\ ev[2] # 0
                        \/ pc' = "abort"
         IN  /\ latch_calls' # << >> <=>
                  (~skipped /\ newdata_time' > 0 /\ newdata_time' > fix_in_real)
             /\ latch_calls' # << >> => latch_calls' = <<time_offset>>]_vars

\* C30: a TOFF report arrived while the fix time was new, and ntp_latch() was
\* not called.
C30_Witness ==
    /\ ~serial
    /\ last_event[1] = "TOFF"
    /\ newdata_time > 0
    /\ newdata_time > fix_in_real
    /\ latch_calls = << >>
    /\ pc = "poll"

(***************************************************************************)
(* The visualization helpers, visibilize() and cond_hexdump().  A byte is  *)
(* a one-character string, "BEL" a byte that is neither printable nor      *)
(* white space, "NUL" the string terminator and "?" a byte of whatever an  *)
(* uninitialised buffer held.  The output buffer buf2 is memory of MemSize *)
(* cells, cell k of the C array being mem[k + 1]; the callee was promised  *)
(* the first len2 of them.  A walk st through the function carries the     *)
(* memory, the cells written so far, and what went wrong on the way.       *)
(***************************************************************************)
MaxLen == 3

InputChars == {"a", "\t", "\n", "\r", "BEL"}

isprint(c) == c \notin {"\t", "\n", "\r", "BEL", "NUL"}

\* "%02x" of a byte
Hex2(c) ==
    CASE c = "\t"  -> <<"0", "9">>
      [] c = "\n"  -> <<"0", "a">>
      [] c = "\r"  -> <<"0", "d">>
      [] c = "BEL" -> <<"0", "7">>
      [] c = "NUL" -> <<"0", "0">>
      [] c = "a"   -> <<"6", "1">>
      [] c = "\\"  -> <<"5", "c">>
      [] c = "x"   -> <<"7", "8">>
      [] OTHER     -> <<"3", "f">>

\* sizeof(buf) - strlen(buf) in gpsmon_hook(), room for every packet tried
HookCap == 4 * MaxLen + 2

MemSize == HookCap + 6

\* size_t arithmetic wraps around: a - b for a < b is a huge number
size_sub(a, b) == IF a >= b THEN a - b ELSE 1000

\* the callee's view of buf2 on entry: init is the number of cells the
\* caller has written, fill what the uninitialised cells hold ("zeroes",
\* "short": two bytes and a terminator, "unterminated")
Entry(fill, init) ==
    [mem |-> [k \in 1..MemSize |->
                 IF k <= init \/ fill = "zeroes" THEN "NUL"
                 ELSE IF fill = "short" /\ k > 2 THEN "NUL"
                 ELSE "?"],
     wrote |-> 0..(init - 1),
     read_uninit |-> FALSE,
     write_past |-> FALSE,
     read_past |-> FALSE]

c_strlen(st) ==
    LET nuls == {k \in 0..(MemSize - 1) : st.mem[k + 1] = "NUL"}
    IN  IF nuls = {} THEN MemSize ELSE Min(nuls)

\* strlen(buf2) reads every cell up to the terminator it finds
strlen_read(st) ==
    [st EXCEPT !.read_uninit =
        @ \/ \E k \in 0..Min({c_strlen(st), MemSize - 1}) : k \notin st.wrote]

\* buf2[at] = c
Put(st, at, c, len2) ==
    [st EXCEPT !.mem = [k \in 1..MemSize |-> IF k = at + 1 THEN c ELSE @[k]],
               !.wrote = @ \cup ({at} \cap (0..(MemSize - 1))),
               !.write_past = @ \/ at >= len2]

\* snprintf(&buf2[at], size, ...) of the characters chars
c_snprintf(st, at, size, chars, len2) ==
    IF size = 0 THEN st
    ELSE LET n == Min({Len(chars), size - 1})
         IN  [st EXCEPT
                !.mem = [k \in 1..MemSize |->
                            IF k - 1 \in at..(at + n - 1) THEN chars[k - at]
                            ELSE IF k - 1 = at + n THEN "NUL"
                            ELSE @[k]],
                !.wrote = @ \cup ((at..(at + n)) \cap (0..(MemSize - 1))),
                !.write_past = @ \/ at + n >= len2]

\* str_appendf(buf2, len2, "%02x", c)
str_appendf(st, len2, c) ==
    c_snprintf(strlen_read(st), c_strlen(st), size_sub(len2, c_strlen(st)),
               Hex2(c), len2)

RECURSIVE hexdump_loop(_, _, _, _)
hexdump_loop(st, len2, buf, i) ==
    IF i >= Len(buf) THEN st
    ELSE hexdump_loop(str_appendf(st, len2, buf[i + 1]), len2, buf, i + 1)

RECURSIVE printable_loop(_, _, _, _, _, _)
printable_loop(st, len2, buf, textual, i, j) ==
    IF ~(i < Len(buf) /\ j < size_sub(len2, 1)) THEN st
    ELSE IF isprint(buf[i + 1])
    THEN printable_loop(Put(Put(st, j, buf[i + 1], len2), j + 1, "NUL", len2),
                        len2, buf, textual, i + 1, j + 1)
    ELSE IF /\ textual
            /\ \/ i = Len(buf) - 1 /\ buf[i + 1] = "\n"
               \/ i = Len(buf) - 2 /\ buf[i + 1] = "\r"
    THEN printable_loop(st, len2, buf, textual, i + 1, j)
    ELSE LET escaped == c_snprintf(strlen_read(st), j,
                                   size_sub(len2, c_strlen(st)),
                                   <<"\\", "x">> \o Hex2(buf[i + 1]), len2)
         IN  printable_loop(strlen_read(escaped), len2, buf, textual,
                            i + 1, c_strlen(escaped))

cond_hexdump(st, len2, buf, textual) ==
    LET printable == \A i \in 1..Len(buf) : isprint(buf[i]) \/ isspace(buf[i])
    IN  IF printable
        THEN printable_loop(st, len2, buf, textual, 0, 0)
        ELSE hexdump_loop(Put(st, 0, "NUL", len2), len2, buf, 0)

\* sp[k] of the string buf, whose terminator is sp[Len(buf)]; beyond is
\* memory that is not the string's
c_char(buf, k, beyond) ==
    IF k < Len(buf) THEN buf[k + 1]
    ELSE IF k = Len(buf) THEN "NUL"
    ELSE beyond

RECURSIVE visibilize_loop(_, _, _, _, _)
visibilize_loop(st, len2, buf, beyond, i) ==
    IF ~(i < Len(buf) /\ c_strlen(st) + 4 < len2) THEN st
    ELSE LET c == buf[i + 1]
             third == c_char(buf, i + 2, beyond)
             reads_third == ~isprint(c) /\ ~(c = "\n") /\ c = "\r"
             verbatim == \/ isprint(c)
                         \/ c = "\n" /\ c_char(buf, i + 1, beyond) = "NUL"
                         \/ c = "\r" /\ third = "NUL"
             read == [st EXCEPT !.read_past =
                         @ \/ (reads_third /\ i + 2 > Len(buf))]
         IN  visibilize_loop(
                 c_snprintf(read, c_strlen(st),
                            IF verbatim THEN 2 ELSE 6,
                            IF verbatim THEN <<c>> ELSE <<"\\", "x">> \o Hex2(c),
                            len2),
                 len2, buf, beyond, i + 1)

visibilize(st, len2, buf, beyond) ==
    visibilize_loop(Put(st, 0, "NUL", len2), len2, buf, beyond, 0)

(***************************************************************************)
(* The helpers on their own.  Each behaviour is one call: of visibilize()  *)
(* from packet_vlog(), or of cond_hexdump() from gpsmon_hook(), whose      *)
(* buffer ends in the terminator of the "(%d) " prefix, from packet_dump(),*)
(* whose buffer is an uninitialised array of which twice the packet length *)
(* is offered, or with any input and capacity.  A second call of           *)
(* cond_hexdump() is given the string the first one left.                  *)
(***************************************************************************)
RenderCalls ==
    LET Buffers == UNION {[1..n -> InputChars] : n \in 0..MaxLen}
        Caps == {0, 1, 5, 6}
        RenderCall(fn, caller, buf, len2, init, fill, beyond) ==
            [pass |-> 0, fn |-> fn, caller |-> caller, buf |-> buf,
             len2 |-> len2, init |-> init, fill |-> fill, beyond |-> beyond,
             first |-> buf, out |-> << >>, terminated |-> FALSE,
             read_uninit |-> FALSE, write_past |-> FALSE,
             read_past |-> FALSE]
    IN  UNION {
          {RenderCall("cond_hexdump", "gpsmon_hook", buf, HookCap, 1,
                      "unterminated", "NUL")}
          \cup {RenderCall("cond_hexdump", "packet_dump", buf, 2 * Len(buf), 0,
                           fill, "NUL") :
                   fill \in {"zeroes", "short", "unterminated"}}
          \cup {RenderCall("cond_hexdump", "any", buf, len2, 0, fill, "NUL") :
                   len2 \in Caps, fill \in {"short", "unterminated"}}
          \cup {RenderCall("visibilize", "packet_vlog", buf, len2, 0,
                           "unterminated", beyond) :
                   len2 \in Caps \cup {HookCap}, beyond \in {"NUL", "?"}}
          : buf \in Buffers}

\* the call has returned, leaving st: out is the string the caller finds in
\* buf2, terminated that its terminator was written and is inside len2
Returned(call, st) ==
    [call EXCEPT !.pass = @ + 1,
                 !.out = [k \in 1..c_strlen(st) |-> st.mem[k]],
                 !.terminated = /\ c_strlen(st) < call.len2
                                /\ \A k \in 0..c_strlen(st) : k \in st.wrote,
                 !.read_uninit = st.read_uninit,
                 !.write_past = st.write_past,
                 !.read_past = st.read_past]

RenderInit ==
    /\ pc = "poll"
    /\ render \in RenderCalls
    /\ bailout = 0
    /\ serial = FALSE
    /\ nocurses = TRUE
    /\ screen = <<0, 0>>
    /\ active = 0
    /\ last_type = "BAD_PACKET"
    /\ lexer_type \in IF render.fn = "cond_hexdump"
                      THEN {"BAD_PACKET", "NMEA_PACKET"}
                      ELSE {"BAD_PACKET"}
    /\ device_type = "NULL"
    /\ outbuflen = 0
    /\ calls = << >>
    /\ complaint = "none"
    /\ writes = << >>
    /\ update_count = 0
    /\ logfile = "null"
    /\ sinks = IF logfile = "open" THEN 1 ELSE 0
    /\ matches = 0
    /\ nmea = FALSE
    /\ time_offset = 0
    /\ pps_out = 0
    /\ ppsout_count = 0
    /\ newdata_time = 0
    /\ fix_in_real = 0
    /\ latch_calls = << >>
    /\ last_event = <<"none", 0, 0>>
    /\ double_fclose = FALSE
    /\ lock = FALSE
    /\ tty = "rare"
    /\ cooked = "prior"
    /\ rare = "rare"
    /\ cmdline = NoLine
    /\ rfds = <<TRUE, FALSE>>
    /\ fresh = FALSE
    /\ fragments = 0
    /\ nonempty = 0
    /\ last_poll = "none"
    /\ ready_polls = 0
    /\ one_each = TRUE
    /\ last_wait = <<"AWAIT_GOT_INPUT", FALSE>>
    /\ readonly = TRUE
    /\ fallback = "NULL"
    /\ counter = 0
    /\ cmd_calls = << >>
    /\ arg = NoLine
    /\ pps_active = serial
    /\ gps_open = TRUE
    /\ explanation = "none"
    /\ exit_status = "running"

render_frame ==
    UNCHANGED <<pc, bailout, config_vars, command_vars, session_vars,
                monitor_vars, report_vars, log_vars, lock, term_vars,
                cmdline, poll_vars, history_vars, pps_active, gps_open,
                exit_vars, hook_vars>>

Visibilize ==
    /\ render.pass = 0
    /\ render.fn = "visibilize"
    /\ render' = Returned(render,
                          visibilize(Entry(render.fill, render.init),
                                     render.len2, render.buf, render.beyond))
    /\ render_frame

CondHexdump ==
    /\ render.pass = 0
    /\ render.fn = "cond_hexdump"
    /\ render' = Returned(render,
                          cond_hexdump(Entry(render.fill, render.init),
                                       render.len2, render.buf,
                                       TEXTUAL_PACKET_TYPE(lexer_type) = 1))
    /\ render_frame

CondHexdumpAgain ==
    /\ render.pass = 1
    /\ render.fn = "cond_hexdump"
    /\ render' = Returned([render EXCEPT !.buf = render.out],
                          cond_hexdump(Entry(render.fill, render.init),
                                       render.len2, render.out,
                                       TEXTUAL_PACKET_TYPE(lexer_type) = 1))
    /\ render_frame

RenderNext == Visibilize \/ CondHexdump \/ CondHexdumpAgain

RenderSpec == RenderInit /\ [][RenderNext]_vars

(***************************************************************************)
(* C27: for every input buffer holding at least one byte that is neither   *)
(* printable nor white space, cond_hexdump() leaves exactly two characters *)
(* per input byte, all of them hex digits, for every caller of the         *)
(* program: gpsmon_hook() and the dump of sent packets, packet_dump(),     *)
(* which offers a capacity of twice the length.                            *)
(***************************************************************************)
C27_HexdumpFullLength ==
    (/\ render.pass = 1
     /\ render.fn = "cond_hexdump"
     /\ render.caller \in {"gpsmon_hook", "packet_dump"}
     /\ \E i \in 1..Len(render.buf) :
            ~isprint(render.buf[i]) /\ ~isspace(render.buf[i]))
    => /\ Len(render.out) = 2 * Len(render.buf)
       /\ \A k \in 1..Len(render.out) : render.out[k] \in HexDigits

(***************************************************************************)
(* C29: for every input and every output capacity, visibilize() and        *)
(* cond_hexdump() stay within bounds: they read no input byte beyond the   *)
(* supplied length (visibilize(): beyond the terminator), do not read the  *)
(* output buffer before writing it, do not write beyond the output         *)
(* capacity, and leave the output terminated, also for empty input and for *)
(* input ending in a bare carriage return.                                 *)
(***************************************************************************)
C29_StaysInBounds ==
    render.pass >= 1
    => /\ ~render.read_past
       /\ ~render.read_uninit
       /\ ~render.write_past
       /\ render.terminated

C31_SwitcherPrecedence ==
    [][(/\ pc = "cmd"
        /\ cmdline # NoLine
        /\ cmdline[1] \in {"c", "n", "s", "x"}
        /\ serial
        /\ device_type # "NULL") =>
          LET verb == cmdline[1]
              method == CASE verb = "c" -> "rate_switcher"
                          [] verb = "n" -> "mode_switcher"
                          [] verb = "s" -> "speed_switcher"
                          [] OTHER -> "control_send"
              has == CASE verb = "c" -> rate_switcher(fallback)
                       [] verb = "n" -> mode_switcher(fallback)
                       [] verb = "s" -> speed_switcher(fallback)
                       [] OTHER -> FALSE
              chosen == IF fallback # "NULL" /\ has THEN fallback
                        ELSE device_type
              lacks == CASE verb = "c" -> ~rate_switcher(chosen)
                         [] verb = "n" -> ~mode_switcher(chosen)
                         [] verb = "s" -> ~speed_switcher(chosen)
                         [] OTHER -> FALSE
          IN  /\ \A i \in DOMAIN cmd_calls' :
                    /\ cmd_calls'[i].driver = chosen
                    /\ cmd_calls'[i].op \in {method, "gpsd_set_speed"}
              /\ lacks =>
                    /\ cmd_calls' = << >>
                    /\ complaint' \in {"no_rate_switcher", "no_mode_switcher",
                                       "no_speed_switcher"}]_vars

\* C31, amended: as stated, except that the s command examines the framing
\* in its argument before it looks for the speed switcher: a refused framing
\* is what it complains of, whether or not the chosen driver has a speed
\* switcher, and it calls nothing.
C31_SwitcherPrecedenceAfterFraming ==
    [][(/\ pc = "cmd"
        /\ cmdline # NoLine
        /\ cmdline[1] \in {"c", "n", "s", "x"}
        /\ serial
        /\ device_type # "NULL") =>
          LET verb == cmdline[1]
              method == CASE verb = "c" -> "rate_switcher"
                          [] verb = "n" -> "mode_switcher"
                          [] verb = "s" -> "speed_switcher"
                          [] OTHER -> "control_send"
              has == CASE verb = "c" -> rate_switcher(fallback)
                       [] verb = "n" -> mode_switcher(fallback)
                       [] verb = "s" -> speed_switcher(fallback)
                       [] OTHER -> FALSE
              chosen == IF fallback # "NULL" /\ has THEN fallback
                        ELSE device_type
              lacks == CASE verb = "c" -> ~rate_switcher(chosen)
                         [] verb = "n" -> ~mode_switcher(chosen)
                         [] verb = "s" -> ~speed_switcher(chosen)
                         [] OTHER -> FALSE
              refused == /\ verb = "s"
                         /\ complaint' \in {"bad_word_length", "bad_parity",
                                            "bad_stopbits"}
          IN  /\ \A i \in DOMAIN cmd_calls' :
                    /\ cmd_calls'[i].driver = chosen
                    /\ cmd_calls'[i].op \in {method, "gpsd_set_speed"}
              /\ refused => cmd_calls' = << >>
              /\ lacks =>
                    /\ cmd_calls' = << >>
                    /\ refused \/ complaint' \in {"no_rate_switcher",
                                                  "no_mode_switcher",
                                                  "no_speed_switcher"}
              /\ (~lacks /\ ~refused /\ verb # "x") =>
                    /\ cmd_calls' # << >>
                    /\ cmd_calls'[1].op = method]_vars

\* C31: a 'c' command on a session whose driver has a rate switcher and
\* whose fallback has one too called the fallback's.
C31_Witness ==
    /\ pc = "rearm"
    /\ serial
    /\ cmdline[1] = "c"
    /\ device_type = "driver_mtk3301"
    /\ fallback = "driver_ubx"
    /\ cmd_calls # << >>
    /\ cmd_calls[1].op = "rate_switcher"
    /\ cmd_calls[1].driver = "driver_ubx"

(***************************************************************************)
(* C32: every write to the log file and to stdout, of packet bytes, of     *)
(* report lines and of the annotations the commands make, is made with the *)
(* reporting lock held.                                                    *)
(***************************************************************************)
C32_WritesUnderLock ==
    \A i \in DOMAIN writes : writes[i].locked

(***************************************************************************)
(* C33: when cond_hexdump() finds the buffer printable and the packet type *)
(* is textual, it leaves out only a final line feed, or a final carriage   *)
(* return and line feed; every other white-space byte that is not          *)
(* printable, also a carriage return in the last place but one that no     *)
(* line feed follows, becomes a four-character escape; and when the packet *)
(* type is not textual nothing is left out.  Checked where the output      *)
(* buffer has room and was terminated by the caller.                       *)
(***************************************************************************)
C33_OnlyTrailerOmitted ==
    LET x == render.buf
        n == Len(x)
        textual == TEXTUAL_PACKET_TYPE(lexer_type) = 1
        omitted == {i \in 1..n :
                       /\ textual
                       /\ \/ i = n /\ x[i] = "\n"
                          \/ i = n - 1 /\ x[i] = "\r" /\ x[n] = "\n"}
        verbatim == {i \in 1..n : isprint(x[i])}
        escaped == {i \in 1..n : ~isprint(x[i])} \ omitted
    IN  (/\ render.pass = 1
         /\ render.fn = "cond_hexdump"
         /\ render.caller = "gpsmon_hook"
         /\ \A i \in 1..n : isprint(x[i]) \/ isspace(x[i]))
        => /\ Len(render.out) = Cardinality(verbatim) + 4 * Cardinality(escaped)
           /\ Cardinality({k \in 1..Len(render.out) : render.out[k] = "\\"})
                 = Cardinality(escaped)

(***************************************************************************)
(* C34: do_command() is called once for each line the operator completed:  *)
(* a turn of the loop in which no line was read, because fd 0 was not      *)
(* looked at or read() returned no byte, executes no command, so that no   *)
(* line is executed twice.                                                 *)
(***************************************************************************)
C34_EachLineExecutedOnce ==
    [][(/\ pc = "cmd"
        /\ cmdline # NoLine
        /\ \/ pc' = "rearm"
           \/ pc' = "quit" /\ bailout' = TERM_QUIT) => fresh]_vars

(***************************************************************************)
(* C35: the reporting lock is not held when control arrives at the quit    *)
(* label or at the landing of longjmp(assertbuf, 1), whatever was          *)
(* interrupted: a signal while fgets() waits for the operator's line, or   *)
(* the assert() on the log write inside the hook.                          *)
(***************************************************************************)
C35_UnwindWithoutLock ==
    pc \in {"quit", "abort"} => ~lock

(***************************************************************************)
(* C36: the quit label is reached only with one of the six termination     *)
(* causes in bailout, so that the default explanation "Unknown error,      *)
(* should never happen." is never written, and the terminal mode that      *)
(* tcsetattr() restores there is one that tcgetattr() saved before.        *)
(***************************************************************************)
C36_KnownCauseAndSavedMode ==
    /\ pc \in {"quit", "quit_log", "quit_tty"} =>
          bailout \in {TERM_SELECT_FAILED, TERM_DRIVER_SWITCH, TERM_EMPTY_READ,
                       TERM_READ_ERROR, TERM_SIGNAL, TERM_QUIT}
    /\ (pc = "exited" /\ exit_status = "EXIT_SUCCESS") =>
          /\ explanation # "Unknown error, should never happen."
          /\ tty # "unset"

(***************************************************************************)
(* C37: when do_command() has run on a line, the position it computed for  *)
(* arg is not behind the line's terminator: at most Len(cmdline), the      *)
(* offset of the NUL, also when only whitespace follows the verb.          *)
(***************************************************************************)
C37_ArgWithinLine ==
    (pc = "rearm" /\ cmdline # NoLine) => arg_offset(cmdline) <= Len(cmdline)

====
